---- MODULE Spec2Model ----
(***************************************************************************)
(* State-machine model of the go-packages helper libraries:                *)
(*   - i18n/languages: Language.Add / AddMulti / Remove / Fallbacks / T    *)
(*   - sessions: flashes, session, the SQL session store, Page.FlashAll    *)
(*     Store.SaveMulti, two requests of one session served at a time       *)
(*   - users/roles: Permissions; params: Parser.Parse                      *)
(*   - webapps: AddHook, AddRoute; texts: Truncate                         *)
(* Strings that are built by the program (rendered templates) are modelled *)
(* as sequences of chunks; a chunk is a literal of the template or a value *)
(* taken from the template data.                                           *)
(***************************************************************************)
EXTENDS Integers, Sequences, FiniteSets, TLC

VARIABLES
    translations,   \* Language.translations, per language: map key -> *Translation
    fallbacks,      \* Language.Fallbacks, per language: list of languages
    status,         \* the process: "running", "panicked" or "exited"
    errlog,         \* number of lines written through package log
    last,           \* the most recent call on a language and how it ended
    prev,           \* the call before last, when both are the same operation
                    \* on the same language and key (and data): <<call>> or <<>>
    served,         \* the language the concurrent requests translate with
    readers,        \* per request goroutine: where its T call stands
    overlap,        \* whether two T calls have been in progress at once
    db,             \* the sessions table of the SQL store: session ID -> row
    sess,           \* per request: the session its handler holds, <<s>>, or <<>>
    held,           \* per request: the flashes put into that session, in order
    drained,        \* per request: the flashes FlashAll returned from it, in order
    slast,          \* the most recent call on a session or the store
    calls,          \* number of calls made on sessions and the store
    permissions,    \* roles.Permissions: map permission -> bool
    hlast,          \* the most recent call on the permissions
    parser,         \* a params.Parser and the destination handed to its Parse
    plast,          \* the Parse call on it and how it ended
    fkind,          \* the kind of the flash list: flashes or Session.flashes
    flist,          \* the flash list
    rlast,          \* the most recent call on the flash list
    hooks,          \* WebApp.hooks
    router,         \* the router: method and path -> the handle registered
    history,        \* the AddHook and AddRoute calls made, in order
    wlast,          \* the most recent call on the web app or request served
    truncation,     \* the arguments of a call of texts.Truncate
    tlast,          \* the Truncate call and its result
    batch,          \* the sessions an application holds at once, in a list
    mlast,          \* the most recent call on one of them or on the list
    race            \* per concurrent request: where its handler stands

langVars == <<translations, fallbacks, status, errlog, last, prev>>

concVars == <<served, readers, overlap>>

sessVars == <<db, sess, held, drained, slast, calls>>

\* The state of the small libraries: permissions.
permVars == <<permissions, hlast>>

paramVars == <<parser, plast>>

flashVars == <<fkind, flist, rlast>>

webVars == <<hooks, router, history, wlast>>

textVars == <<truncation, tlast>>

multiVars == <<batch, mlast>>

raceVars == <<race>>

libVars == <<permissions, hlast, parser, plast, fkind, flist, rlast,
          hooks, router, history, wlast, truncation, tlast,
          batch, mlast, race>>

vars == <<translations, fallbacks, status, errlog, last, prev,
          served, readers, overlap, db, sess, held, drained, slast, calls,
          permissions, hlast, parser, plast, fkind, flist, rlast,
          hooks, router, history, wlast, truncation, tlast,
          batch, mlast, race>>

----------------------------------------------------------------------------
(* Bounds of the model *)

\* Translations plus fallback entries that all languages hold together, in the
\* runs that start from empty languages.
MaxEntries == 2

\* The same, for the language tables the lookups are tried on.
MaxTables == 4

Langs == {"de", "en", "es"}

Keys == {"greeting", "farewell"}

\* A fallback list holds distinct languages, at most all but one of them.
MaxFallbacks == Cardinality(Langs) - 1

----------------------------------------------------------------------------
(* text/template, as far as the translations use it *)

Lit(s) == [kind |-> "text", s |-> s, path |-> <<>>]

Field(path) == [kind |-> "field", s |-> "", path |-> path]

BadAction == [kind |-> "bad", s |-> "{{if }}", path |-> <<>>]

\* "Hallo {{.Name}}"
TextName == <<Lit("Hallo "), Field(<<"Name">>)>>

\* "Adios {{.Name.First}}": executing it fails when .Name is a string
TextDeep == <<Lit("Adios "), Field(<<"Name", "First">>)>>

\* "{{if }}bad syntax}}": not a template
TextBad == <<BadAction, Lit("bad syntax}}")>>

Texts == {TextName, TextDeep, TextBad}

\* Template data: map[string]interface{} holding strings.
NoData == [x \in {} |-> ""]

Christian == [x \in {"Name"} |-> "Christian"]

\* The variadic args of T and TranslateFunc.
ArgLists == {<<>>, <<Christian>>}

\* template.New(name).Parse(text)
Parse(name, text) ==
    IF \E i \in 1..Len(text) : text[i].kind = "bad"
    THEN [ok |-> FALSE, tmpl |-> [name |-> name, tree |-> <<>>]]
    ELSE [ok |-> TRUE, tmpl |-> [name |-> name, tree |-> text]]

\* Evaluation of a field chain .A.B against the data map: a missing key
\* yields no value, a field of a string is an error.
EvalField(path, data) ==
    IF path[1] \notin DOMAIN data
    THEN [err |-> FALSE, out |-> "<no value>"]
    ELSE IF Len(path) = 1
         THEN [err |-> FALSE, out |-> data[path[1]]]
         ELSE [err |-> TRUE, out |-> ""]

RECURSIVE ExecFrom(_, _, _)
ExecFrom(tree, i, data) ==
    IF i > Len(tree)
    THEN [err |-> FALSE, out |-> <<>>]
    ELSE IF tree[i].kind = "text"
         THEN LET rest == ExecFrom(tree, i + 1, data)
              IN  [err |-> rest.err, out |-> <<tree[i].s>> \o rest.out]
         ELSE LET v == EvalField(tree[i].path, data)
              IN  IF v.err
                  THEN [err |-> TRUE, out |-> <<>>]
                  ELSE LET rest == ExecFrom(tree, i + 1, data)
                       IN  [err |-> rest.err, out |-> <<v.out>> \o rest.out]

\* (*Template).Execute(&buf, data)
Execute(tmpl, data) == ExecFrom(tmpl.tree, 1, data)

----------------------------------------------------------------------------
(* i18n/languages *)

\* NewLanguage: no translation, no fallback.
NewLanguage == [translations |-> [k \in {} |-> 0], Fallbacks |-> <<>>]

\* Language.Get: is there a translation for the key (non-nil result)
Get(tr, l, k) == k \in DOMAIN tr[l]

\* Mutation: a key that is already in the map keeps its first value.
MapSetKeepFirst(m, k, v) ==
    [x \in (DOMAIN m) \cup {k} |-> IF x \in DOMAIN m THEN m[x] ELSE v]

\* The map store l.translations[translationID] = t
MapSet(m, k, v) == [x \in (DOMAIN m) \cup {k} |-> IF x = k THEN v ELSE m[x]]

\* delete(l.translations, translationID)
MapDelete(m, k) == [x \in (DOMAIN m) \ {k} |-> m[x]]

\* Language.Add on the translation tables tr: the tables afterwards and whether
\* the call panicked.
AddApply(tr, l, k, text) ==
    LET p == Parse(k, text)
    IN  IF ~p.ok
        THEN [panic |-> TRUE, tr |-> tr]
        ELSE [panic |-> FALSE,
              tr |-> [tr EXCEPT ![l] = MapSet(tr[l], k, [Other |-> p.tmpl])]]

RECURSIVE AddMultiFrom(_, _, _, _)
AddMultiFrom(tr, l, args, i) ==
    IF i >= Len(args)
    THEN [panic |-> FALSE, tr |-> tr]
    ELSE LET a == AddApply(tr, l, args[i], args[i + 1])
         IN  IF a.panic THEN a ELSE AddMultiFrom(a.tr, l, args, i + 2)

\* Language.AddMulti
AddMultiApply(tr, l, args) ==
    IF Len(args) % 2 # 0
    THEN [panic |-> FALSE, error |-> TRUE, tr |-> tr]
    ELSE LET a == AddMultiFrom(tr, l, args, 1)
         IN  [panic |-> a.panic, error |-> FALSE, tr |-> a.tr]

Reverse(q) == [i \in 1..Len(q) |-> q[Len(q) + 1 - i]]

\* Mutation: the fallbacks are appended in reverse order.
LanguagesReversed(fb, l) == <<l>> \o Reverse(fb[l])

\* Mutation: the receiver is left out of the list.
LanguagesWithoutReceiver(fb, l) == fb[l]

RECURSIVE FallbacksOfAll(_, _, _)
FallbacksOfAll(fb, list, i) ==
    IF i > Len(list) THEN <<>> ELSE fb[list[i]] \o FallbacksOfAll(fb, list, i + 1)

\* Mutation: the fallbacks of the fallbacks are appended as well.
LanguagesWithTheirFallbacks(fb, l) == <<l>> \o fb[l] \o FallbacksOfAll(fb, fb[l], 1)

\* The list T builds: the receiver followed by its Fallbacks.
Languages(fb, l) == <<l>> \o fb[l]

\* The languages the loop of T calls Get on, in order: up to the first that
\* has the key.
RECURSIVE VisitedFrom(_, _, _, _)
VisitedFrom(tr, languages, i, k) ==
    IF i > Len(languages) THEN <<>>
    ELSE IF Get(tr, languages[i], k) THEN <<languages[i]>>
    ELSE <<languages[i]>> \o VisitedFrom(tr, languages, i + 1, k)

Visited(tr, fb, l, k) == VisitedFrom(tr, Languages(fb, l), 1, k)

RECURSIVE TScan(_, _, _, _, _)
TScan(tr, languages, i, k, data) ==
    IF i > Len(languages)
    THEN [outcome |-> "return", result |-> <<k>>]
    ELSE IF ~Get(tr, languages[i], k)
         THEN TScan(tr, languages, i + 1, k, data)
         ELSE LET e == Execute(tr[languages[i]][k].Other, data)
              IN  IF e.err
                  THEN [outcome |-> "fatal", result |-> <<>>]
                  ELSE [outcome |-> "return", result |-> e.out]

\* The first item of args is the template data, further items are ignored.
TemplateData(args) == IF Len(args) > 0 THEN args[1] ELSE NoData

\* Mutation: a key that is found nowhere gives the empty string.
TEmptyWhenMissing(tr, fb, l, k, args) ==
    LET ls == Languages(fb, l)
    IN  IF \A i \in 1..Len(ls) : ~Get(tr, ls[i], k)
        THEN [outcome |-> "return", result |-> <<>>]
        ELSE TScan(tr, ls, 1, k, TemplateData(args))

\* Language.T
T(tr, fb, l, k, args) == TScan(tr, Languages(fb, l), 1, k, TemplateData(args))

NoCall == [op |-> "none", lang |-> "", key |-> "", args |-> <<>>, text |-> <<>>,
           outcome |-> "none", result |-> <<>>]

CallRec(op, l, k, args, text, outcome, result) ==
    [op |-> op, lang |-> l, key |-> k, args |-> args, text |-> text,
     outcome |-> outcome, result |-> result]

Running == status = "running"

\* The record of the call before, kept when the new call repeats it.
Repeated(op, l, k, args) ==
    IF last.op = op /\ last.lang = l /\ last.key = k /\ last.args = args
    THEN <<last>> ELSE <<>>

RECURSIVE SumOver(_, _)
SumOver(S, f) ==
    IF S = {} THEN 0
    ELSE LET x == CHOOSE y \in S : TRUE IN f[x] + SumOver(S \ {x}, f)

\* Number of translations and fallback entries held by all languages.
Size(tr, fb) ==
    SumOver(Langs, [l \in Langs |-> Cardinality(DOMAIN tr[l]) + Len(fb[l])])

\* Request goroutines that call T.
Readers == {"r1", "r2"}

Idle == [pc |-> "idle", key |-> "", args |-> <<>>, languages |-> <<>>, i |-> 0,
         outcome |-> "none", result |-> <<>>]

\* No request is being served.
NoRequests ==
    /\ served = "de"
    /\ readers = [p \in Readers |-> Idle]
    /\ overlap = FALSE

\* Request handlers that work with a session; requests are served one after
\* another, each Get or NewSession gives the handler its session.
Reqs == {"q1"}

NoStoreCall == [op |-> "none", q |-> "", ok |-> TRUE, carried |-> <<>>,
                pending |-> <<>>, result |-> <<>>, saved |-> <<>>,
                deleted |-> <<>>, row |-> <<>>]

\* No session exists and the store's table is empty.
NoSessions ==
    /\ db = <<>>
    /\ sess = [q \in Reqs |-> <<>>]
    /\ held = [q \in Reqs |-> <<>>]
    /\ drained = [q \in Reqs |-> <<>>]
    /\ slast = NoStoreCall
    /\ calls = 0

NoPermissionCall == [op |-> "none", permissions |-> <<>>, result |-> FALSE]

\* The small libraries have not been called: an empty permissions map.
NoParser ==
    [p |-> [routerParams |-> <<>>, Form |-> <<>>],
     dest |-> [Kind |-> "invalid", Elem |-> "", Fields |-> <<>>]]

NoParseCall == [op |-> "none", err |-> "", dest |-> <<>>]

NoPermissions ==
    /\ permissions = <<>>
    /\ hlast = NoPermissionCall

NoParsing ==
    /\ parser = NoParser
    /\ plast = NoParseCall

NoRemoveCall == [op |-> "none", flashes |-> <<>>, before |-> <<>>, panicked |-> FALSE]

NoFlashList ==
    /\ fkind = "flashes"
    /\ flist = <<>>
    /\ rlast = NoRemoveCall

NoWebCall == [op |-> "none", request |-> <<>>, trace |-> <<>>]

NoWebApp ==
    /\ hooks = <<>>
    /\ router = <<>>
    /\ history = <<>>
    /\ wlast = NoWebCall

NoTruncation == [text |-> <<>>, maxLength |-> 0, suffix |-> <<>>, exact |-> FALSE]

NoTruncateCall == [op |-> "none", result |-> <<>>]

NoTexts ==
    /\ truncation = NoTruncation
    /\ tlast = NoTruncateCall

NoMultiCall == [op |-> "none", i |-> 0, ok |-> TRUE, before |-> <<>>, table |-> <<>>]

NoBatch ==
    /\ batch = <<>>
    /\ mlast = NoMultiCall

\* Requests that are served at the same time.
RaceReqs == {"q1", "q2"}

NoRace == race = [q \in RaceReqs |-> [pc |-> "start", session |-> <<>>, flashes |-> <<>>]]

NoLibCalls ==
    /\ NoPermissions
    /\ NoParsing
    /\ NoFlashList
    /\ NoWebApp
    /\ NoTexts
    /\ NoBatch
    /\ NoRace

\* The languages as NewLanguage returns them, and a running process.
NoTranslations ==
    /\ translations = [l \in Langs |-> NewLanguage.translations]
    /\ fallbacks = [l \in Langs |-> NewLanguage.Fallbacks]
    /\ status = "running"
    /\ errlog = 0
    /\ last = NoCall
    /\ prev = <<>>

InitLang ==
    /\ NoRequests
    /\ NoSessions
    /\ NoLibCalls
    /\ NoTranslations

\* l.Add(k, text)
Add(l, k, text) ==
    /\ Running
    /\ LET a == AddApply(translations, l, k, text)
       IN  /\ Size(a.tr, fallbacks) <= MaxEntries
           /\ translations' = a.tr
           /\ status' = IF a.panic THEN "panicked" ELSE status
           /\ last' = CallRec("Add", l, k, <<>>, text,
                              IF a.panic THEN "panic" ELSE "return", <<>>)
    /\ prev' = Repeated("Add", l, k, <<>>)
    /\ UNCHANGED <<fallbacks, errlog>>

\* l.AddMulti(args...)
AddMulti(l, args) ==
    /\ Running
    /\ LET a == AddMultiApply(translations, l, args)
       IN  /\ Size(a.tr, fallbacks) <= MaxEntries
           /\ translations' = a.tr
           /\ status' = IF a.panic THEN "panicked" ELSE status
           /\ last' = CallRec("AddMulti", l, "", args, <<>>,
                              IF a.panic THEN "panic"
                              ELSE IF a.error THEN "error" ELSE "return", <<>>)
    /\ prev' = <<>>
    /\ UNCHANGED <<fallbacks, errlog>>

\* l.Remove(k)
Remove(l, k) ==
    /\ Running
    /\ translations' = [translations EXCEPT ![l] = MapDelete(translations[l], k)]
    /\ last' = CallRec("Remove", l, k, <<>>, <<>>, "return", <<>>)
    /\ prev' = <<>>
    /\ UNCHANGED <<fallbacks, status, errlog>>

\* Lists of distinct languages, up to MaxFallbacks long.
FallbackLists ==
    {s \in UNION {[1..n -> Langs] : n \in 0..MaxFallbacks} :
        \A i, j \in 1..Len(s) : i # j => s[i] # s[j]}

\* l.Fallbacks = fbs
SetFallbacks(l, fbs) ==
    /\ Running
    /\ fallbacks' = [fallbacks EXCEPT ![l] = fbs]
    /\ Size(translations, fallbacks') <= MaxEntries
    /\ last' = CallRec("SetFallbacks", l, "", <<>>, <<>>, "return", <<>>)
    /\ prev' = <<>>
    /\ UNCHANGED <<translations, status, errlog>>

\* Mutation: T stores the list it builds back into l.Fallbacks.
CallTStoresList(l, k, args) ==
    /\ Running
    /\ LET r == T(translations, fallbacks, l, k, args)
       IN  /\ last' = CallRec("T", l, k, args, <<>>, r.outcome, r.result)
           /\ status' = IF r.outcome = "fatal" THEN "exited" ELSE status
           /\ errlog' = IF r.outcome = "fatal" THEN errlog + 1 ELSE errlog
    /\ prev' = Repeated("T", l, k, args)
    /\ fallbacks' = [fallbacks EXCEPT ![l] = Languages(fallbacks, l)]
    /\ UNCHANGED translations

\* l.T(k, args...): log.Fatalf writes the log and exits the process.
CallT(l, k, args) ==
    /\ Running
    /\ LET r == T(translations, fallbacks, l, k, args)
       IN  /\ last' = CallRec("T", l, k, args, <<>>, r.outcome, r.result)
           /\ status' = IF r.outcome = "fatal" THEN "exited" ELSE status
           /\ errlog' = IF r.outcome = "fatal" THEN errlog + 1 ELSE errlog
    /\ prev' = Repeated("T", l, k, args)
    /\ UNCHANGED <<translations, fallbacks>>

\* Arguments of AddMulti: no pair, a dangling ID, or one pair.
AddMultiArgs ==
    {<<>>} \cup {<<k>> : k \in Keys} \cup {<<k, t>> : k \in Keys, t \in Texts}

NextLang ==
    /\ \/ \E l \in Langs, k \in Keys, text \in Texts : Add(l, k, text)
       \/ \E l \in Langs, args \in AddMultiArgs : AddMulti(l, args)
       \/ \E l \in Langs, k \in Keys : Remove(l, k)
       \/ \E l \in Langs, fbs \in FallbackLists : SetFallbacks(l, fbs)
       \/ \E l \in Langs, k \in Keys, args \in ArgLists : CallT(l, k, args)
    /\ UNCHANGED <<concVars, sessVars, libVars>>

SpecLang == InitLang /\ [][NextLang]_vars

----------------------------------------------------------------------------
(* Lookups on languages that were set up before *)

\* The translations a language can hold: every map from some keys to parsed
\* templates (what Add leaves behind).
TranslationMaps ==
    UNION {[D -> {[Other |-> Parse("", t).tmpl.tree] : t \in Texts \ {TextBad}}] :
            D \in SUBSET Keys}

Named(m) == [k \in DOMAIN m |-> [Other |-> [name |-> k, tree |-> m[k].Other]]]

\* Lookups on languages that were set up before: any tables that Add and the
\* assignment of Fallbacks can build, up to MaxTables entries.
InitLookup ==
    /\ NoRequests
    /\ NoSessions
    /\ NoLibCalls
    /\ translations \in [Langs -> {Named(m) : m \in TranslationMaps}]
    /\ fallbacks \in [Langs -> FallbackLists]
    /\ Size(translations, fallbacks) <= MaxTables
    /\ status = "running"
    /\ errlog = 0
    /\ last = NoCall
    /\ prev = <<>>

NextLookup ==
    /\ \E l \in Langs, k \in Keys, args \in ArgLists : CallT(l, k, args)
    /\ UNCHANGED <<concVars, sessVars, libVars>>

SpecLookup == InitLookup /\ [][NextLookup]_vars

----------------------------------------------------------------------------
(* Concurrent lookups: one goroutine per request, all set-up done before. Each  *)
(* step of a T call is one access to the shared language tables: the read of   *)
(* l.Fallbacks when the list is built, and one Get per language of the list.   *)
(* Executing the template found reads the template and the call's own data and *)
(* buffer only, and is part of the step that found it.                         *)

\* Mutation: the list is built in place, in l.Fallbacks.
TBeginStoresList(p, k, args) ==
    /\ Running
    /\ readers[p].pc = "idle"
    /\ readers' = [readers EXCEPT ![p] =
          [pc |-> "loop", key |-> k, args |-> args,
           languages |-> Languages(fallbacks, served), i |-> 1,
           outcome |-> "none", result |-> <<>>]]
    /\ overlap' = (overlap \/ \E q \in Readers \ {p} : readers[q].pc = "loop")
    /\ fallbacks' = [fallbacks EXCEPT ![served] = Languages(fallbacks, served)]
    /\ UNCHANGED <<translations, status, errlog, last, prev, served>>

\* T, up to the loop: templateData and the list of languages.
TBegin(p, k, args) ==
    /\ Running
    /\ readers[p].pc = "idle"
    /\ readers' = [readers EXCEPT ![p] =
          [pc |-> "loop", key |-> k, args |-> args,
           languages |-> Languages(fallbacks, served), i |-> 1,
           outcome |-> "none", result |-> <<>>]]
    /\ overlap' = (overlap \/ \E q \in Readers \ {p} : readers[q].pc = "loop")
    /\ UNCHANGED <<langVars, served>>

\* One iteration of T's loop, and the return after the last one.
TIter(p) ==
    /\ Running
    /\ readers[p].pc = "loop"
    /\ LET r == readers[p]
           x == r.languages[r.i]
       IN  IF ~Get(translations, x, r.key)
           THEN /\ readers' = [readers EXCEPT ![p] =
                      IF r.i < Len(r.languages)
                      THEN [r EXCEPT !.i = r.i + 1]
                      ELSE [r EXCEPT !.pc = "done", !.outcome = "return",
                                     !.result = <<r.key>>]]
                /\ UNCHANGED <<status, errlog>>
           ELSE LET e == Execute(translations[x][r.key].Other, TemplateData(r.args))
                IN  IF e.err
                    THEN /\ readers' = [readers EXCEPT ![p] =
                               [r EXCEPT !.pc = "done", !.outcome = "fatal"]]
                         /\ status' = "exited"
                         /\ errlog' = errlog + 1
                    ELSE /\ readers' = [readers EXCEPT ![p] =
                               [r EXCEPT !.pc = "done", !.outcome = "return",
                                         !.result = e.out]]
                         /\ UNCHANGED <<status, errlog>>
    /\ UNCHANGED <<translations, fallbacks, last, prev, served, overlap>>

\* The server starts to serve after the set-up: the languages hold any tables
\* of up to MaxEntries entries, and nothing adds or removes from then on.
InitConc ==
    /\ translations \in [Langs -> {Named(m) : m \in TranslationMaps}]
    /\ fallbacks \in [Langs -> FallbackLists]
    /\ Size(translations, fallbacks) <= MaxEntries
    /\ status = "running"
    /\ errlog = 0
    /\ last = NoCall
    /\ prev = <<>>
    /\ served \in Langs
    /\ readers = [p \in Readers |-> Idle]
    /\ overlap = FALSE
    /\ NoSessions
    /\ NoLibCalls

NextConc ==
    /\ \/ \E p \in Readers, k \in Keys, args \in ArgLists : TBegin(p, k, args)
       \/ \E p \in Readers : TIter(p)
    /\ UNCHANGED <<sessVars, libVars>>

SpecConc == InitConc /\ [][NextConc]_vars

----------------------------------------------------------------------------
(* Sessions: flashes, values, the session and the SQL session store.         *)
(* A session ID is a sequence of characters; a message, a flash type, a      *)
(* value and a date are opaque texts. A JSON object is the set of its        *)
(* name/value pairs, a JSON array a sequence.                                *)

\* Flashes one session object is given, over its life.
MaxFlashes == 2

\* Calls on sessions and the store in one run.
MaxCalls == 7

\* Characters of the model's IDs that the pattern ^[0-9a-zA-Z=/+]+$ admits.
PatternChars == {"a", "b", "c", "r", "1", "=", "/", "+"}

\* IDs the application creates sessions with, IDs the store generates (Base64)
\* and what a request can carry: no ID, or any of them.
AppIDs == {<<"a", "b", "c">>, <<"a", "-", "b">>}

GenIDs == {<<"r", "1", "=", "=">>}

CarriedIDs == {<<>>} \cup AppIDs \cup GenIDs

Dates == {"t1", "t2"}

KeyUserID == "user.id"

ValueKeys == {KeyUserID}

ValueVals == {"user1"}

\* Arguments of Flashes.AddNew: a message and, optionally, a type.
FlashArgs == {<<"lorem ipsum", "info">>, <<"dolor">>}

\* Outcomes of the environment during a store call: all goes well, the
\* database call returns an error, reading random bytes returns an error.
Faults == {"none", "db", "rand"}

isIDNonEmpty(id) == Len(id) > 0

isID(id) == Len(id) > 0 /\ \A i \in 1..Len(id) : id[i] \in PatternChars

NewFlash(message, flashType) == [message |-> message, flashType |-> flashType]

\* The value of a member of a JSON object, "" when the member is absent.
Member(object, name) ==
    IF \E pair \in object : pair[1] = name
    THEN (CHOOSE pair \in object : pair[1] = name)[2]
    ELSE ""

\* The members json.Marshal writes for a struct whose fields are omitempty.
OmitEmpty(object) == {pair \in object : pair[2] # ""}

\* flash.MarshalJSON, through encodableFlash.
MarshalJSON(f) ==
    LET temp == [Message |-> f.message, Type |-> f.flashType]
    IN  OmitEmpty({<<"message", temp.Message>>, <<"type", temp.Type>>})

MarshalFlashes(ff) == [i \in 1..Len(ff) |-> MarshalJSON(ff[i])]

FlashesFromJSONReversed(data) ==
    [i \in 1..Len(data) |->
        NewFlash(Member(data[Len(data) + 1 - i], "message"),
                 Member(data[Len(data) + 1 - i], "type"))]

FlashesFromJSON(data) ==
    [i \in 1..Len(data) |->
        NewFlash(Member(data[i], "message"), Member(data[i], "type"))]

FlashesAdd(ff, new) == ff \o new

FlashesAddNew(ff, args) ==
    LET flash == NewFlash(args[1], "")
    IN  FlashesAdd(ff, <<IF Len(args) > 1
                         THEN [flash EXCEPT !.flashType = args[2]]
                         ELSE flash>>)

FlashesGetAll(ff) == ff

FlashesRemoveAll(ff) == <<>>

NewValues == <<>>

ValuesGet(v, key) == IF key \in DOMAIN v THEN v[key] ELSE ""

ValuesSet(v, key, value) ==
    [k \in DOMAIN v \cup {key} |-> IF k = key THEN value ELSE v[k]]

MarshalValues(v) == {<<k, v[k]>> : k \in DOMAIN v}

ValuesFromJSON(data) == [k \in {pair[1] : pair \in data} |-> Member(data, k)]

\* SetAll on the values of a session.
ValuesSetAll(v, pairs) ==
    [k \in DOMAIN v \cup DOMAIN pairs |-> IF k \in DOMAIN pairs THEN pairs[k] ELSE v[k]]

NewSession(id, now) ==
    [id |-> id, dateCreated |-> now, flashes |-> <<>>, values |-> NewValues,
     isStored |-> FALSE]

\* The row Store.Save writes for a session.
Row(s) ==
    [data |-> MarshalValues(s.values), date_created |-> s.dateCreated,
     flashes |-> MarshalFlashes(FlashesGetAll(s.flashes)),
     user_id |-> ValuesGet(s.values, KeyUserID)]

\* querySave: insert the row, or replace the row of the same id.
Upsert(table, id, row) ==
    [k \in DOMAIN table \cup {id} |-> IF k = id THEN row ELSE table[k]]

DeleteRowKeepsRow(table, id) == table

\* queryDelete
DeleteRow(table, id) == [k \in DOMAIN table \ {id} |-> table[k]]

\* Store.newSession: a session under a newly generated ID, or an error.
newSession(fresh, now, fault) ==
    IF fault = "rand"
    THEN [err |-> TRUE, session |-> <<>>]
    ELSE [err |-> FALSE, session |-> <<NewSession(fresh, now)>>]

\* Store.Get for a request that carries the ID `carried` in the cookie or the
\* header the store is configured with (<<>>: no cookie, or an empty value).
StoreGet(table, carried, fresh, now, fault) ==
    IF ~isID(carried) THEN newSession(fresh, now, fault)
    ELSE IF fault = "db" THEN [err |-> TRUE, session |-> <<>>]
    ELSE IF carried \notin DOMAIN table THEN newSession(fresh, now, fault)
    ELSE LET session == NewSession(carried, now)
             temp == table[carried]
             flashes == FlashesFromJSON(temp.flashes)
             values == ValuesFromJSON(temp.data)
         IN  [err |-> FALSE,
              session |-> <<[session EXCEPT
                              !.dateCreated = temp.date_created,
                              !.isStored = TRUE,
                              !.flashes = FlashesAdd(session.flashes, flashes),
                              !.values = ValuesSetAll(session.values, values)]>>]

\* Store.Save
StoreSave(table, s, fault) ==
    IF fault = "db"
    THEN [err |-> TRUE, table |-> table, session |-> s]
    ELSE [err |-> FALSE, table |-> Upsert(table, s.id, Row(s)),
          session |-> [s EXCEPT !.isStored = TRUE]]

\* Store.Delete
StoreDelete(table, sessionID, fault) ==
    IF fault = "db"
    THEN [err |-> TRUE, table |-> table]
    ELSE [err |-> FALSE, table |-> DeleteRow(table, sessionID)]

\* session.Delete
SessionDelete(table, s, fault) ==
    LET r == StoreDelete(table, s.id, fault)
    IN  IF r.err
        THEN [err |-> TRUE, table |-> r.table, session |-> s]
        ELSE [err |-> FALSE, table |-> r.table,
              session |-> [s EXCEPT !.isStored = FALSE]]

PageFlashAllWithoutSave(table, s, fault) ==
    [err |-> FALSE, flashes |-> FlashesGetAll(s.flashes), table |-> table,
     session |-> [s EXCEPT !.flashes = FlashesRemoveAll(s.flashes)]]

\* Page.FlashAll on a page whose Session is not nil.
PageFlashAll(table, s, fault) ==
    LET flashes == FlashesGetAll(s.flashes)
        removed == [s EXCEPT !.flashes = FlashesRemoveAll(s.flashes)]
        save == StoreSave(table, removed, fault)
    IN  IF Len(flashes) = 0
        THEN [err |-> FALSE, flashes |-> flashes, table |-> table, session |-> s]
        ELSE IF s.isStored
        THEN IF save.err
             THEN [err |-> TRUE, flashes |-> <<>>, table |-> save.table,
                   session |-> save.session]
             ELSE [err |-> FALSE, flashes |-> flashes, table |-> save.table,
                   session |-> save.session]
        ELSE [err |-> FALSE, flashes |-> flashes, table |-> table,
              session |-> removed]

StoreCall(op, q, ok) == [NoStoreCall EXCEPT !.op = op, !.q = q, !.ok = ok]

\* IDs the generator can return: random, so none that is in use (and none that
\* the request at hand carries, see CallGet).
FreshIDs ==
    {id \in GenIDs : id \notin DOMAIN db
                     /\ \A q \in Reqs : sess[q] = <<>> \/ sess[q][1].id # id}

\* The handler of request q creates a session: sessions.NewSession(store, id)
CallNewSession(q, id, now) ==
    /\ sess' = [sess EXCEPT ![q] = <<NewSession(id, now)>>]
    /\ held' = [held EXCEPT ![q] = <<>>]
    /\ drained' = [drained EXCEPT ![q] = <<>>]
    /\ slast' = StoreCall("NewSession", q, TRUE)
    /\ UNCHANGED db

\* session.Flashes().AddNew(message, flashType...)
CallAddNew(q, args) ==
    /\ sess[q] # <<>>
    /\ Len(held[q]) < MaxFlashes
    /\ LET s == sess[q][1]
           ff == FlashesAddNew(s.flashes, args)
       IN  /\ sess' = [sess EXCEPT ![q] = <<[s EXCEPT !.flashes = ff]>>]
           /\ held' = [held EXCEPT ![q] = Append(@, ff[Len(ff)])]
    /\ slast' = StoreCall("AddNew", q, TRUE)
    /\ UNCHANGED <<db, drained>>

\* session.Values().Set(key, value)
CallSet(q, key, value) ==
    /\ sess[q] # <<>>
    /\ LET s == sess[q][1]
       IN  sess' = [sess EXCEPT ![q] = <<[s EXCEPT !.values = ValuesSet(@, key, value)]>>]
    /\ slast' = StoreCall("Set", q, TRUE)
    /\ UNCHANGED <<db, held, drained>>

\* session, err := store.Get(writer, request)
CallGet(q, carried, now, fault) ==
    \E fresh \in GenIDs :
        LET r == StoreGet(db, carried, fresh, now, fault)
        IN  /\ (~r.err /\ r.session[1].id = fresh) => fresh \in FreshIDs \ {carried}
            /\ sess' = [sess EXCEPT ![q] = r.session]
            /\ held' = [held EXCEPT ![q] = IF r.err THEN <<>> ELSE r.session[1].flashes]
            /\ drained' = [drained EXCEPT ![q] = <<>>]
            /\ slast' = [StoreCall("Get", q, ~r.err) EXCEPT
                            !.carried = carried,
                            !.saved = IF slast.op = "Save" /\ slast.ok
                                      THEN slast.saved ELSE <<>>,
                            !.deleted = IF slast.op = "Delete" /\ slast.ok
                                        THEN slast.deleted ELSE <<>>]
            /\ UNCHANGED db

\* err := session.Save(writer)
CallSave(q, fault) ==
    /\ sess[q] # <<>>
    /\ LET r == StoreSave(db, sess[q][1], fault)
       IN  /\ db' = r.table
           /\ sess' = [sess EXCEPT ![q] = <<r.session>>]
           /\ slast' = [StoreCall("Save", q, ~r.err) EXCEPT
                           !.saved = IF r.err THEN <<>> ELSE <<r.session>>,
                           !.row = IF r.err THEN <<>>
                                   ELSE <<[id |-> sess[q][1].id,
                                           row |-> Row(sess[q][1])]>>]
    /\ UNCHANGED <<held, drained>>

\* What a successful Delete has deleted: the ID, and whether it had a row.
Deleted(sessionID) == [id |-> sessionID, stored |-> sessionID \in DOMAIN db]

\* err := session.Delete(writer)
CallDelete(q, fault) ==
    /\ sess[q] # <<>>
    /\ LET r == SessionDelete(db, sess[q][1], fault)
       IN  /\ db' = r.table
           /\ sess' = [sess EXCEPT ![q] = <<r.session>>]
           /\ slast' = [StoreCall("Delete", q, ~r.err) EXCEPT
                           !.deleted = IF r.err THEN <<>>
                                        ELSE <<Deleted(sess[q][1].id)>>]
    /\ UNCHANGED <<held, drained>>

\* err := store.Delete(writer, sessionID), by a handler that names the ID
CallStoreDelete(q, sessionID, fault) ==
    /\ LET r == StoreDelete(db, sessionID, fault)
       IN  /\ db' = r.table
           /\ slast' = [StoreCall("Delete", q, ~r.err) EXCEPT
                           !.deleted = IF r.err THEN <<>>
                                        ELSE <<Deleted(sessionID)>>]
    /\ UNCHANGED <<sess, held, drained>>

\* flashes, err := page.FlashAll()
CallFlashAll(q, fault) ==
    IF sess[q] = <<>>
    THEN /\ slast' = StoreCall("FlashAll", q, FALSE)
         /\ UNCHANGED <<db, sess, held, drained>>
    ELSE LET r == PageFlashAll(db, sess[q][1], fault)
         IN  /\ db' = r.table
             /\ sess' = [sess EXCEPT ![q] = <<r.session>>]
             /\ drained' = [drained EXCEPT ![q] = @ \o r.flashes]
             /\ slast' = [StoreCall("FlashAll", q, ~r.err) EXCEPT
                             !.pending = sess[q][1].flashes,
                             !.result = r.flashes]
             /\ UNCHANGED held

InitSess ==
    /\ NoRequests
    /\ NoTranslations
    /\ NoSessions
    /\ NoLibCalls

NextSess ==
    /\ calls < MaxCalls
    /\ calls' = calls + 1
    /\ \/ \E q \in Reqs, id \in AppIDs, now \in Dates : CallNewSession(q, id, now)
       \/ \E q \in Reqs, args \in FlashArgs : CallAddNew(q, args)
       \/ \E q \in Reqs, key \in ValueKeys, value \in ValueVals : CallSet(q, key, value)
       \/ \E q \in Reqs, carried \in CarriedIDs, now \in Dates, fault \in Faults :
              CallGet(q, carried, now, fault)
       \/ \E q \in Reqs, fault \in Faults \ {"rand"} : CallSave(q, fault)
       \/ \E q \in Reqs, fault \in Faults \ {"rand"} : CallDelete(q, fault)
       \/ \E q \in Reqs, id \in AppIDs \cup GenIDs, fault \in Faults \ {"rand"} :
              CallStoreDelete(q, id, fault)
       \/ \E q \in Reqs, fault \in Faults \ {"rand"} : CallFlashAll(q, fault)
    /\ UNCHANGED <<langVars, concVars, libVars>>

SpecSess == InitSess /\ [][NextSess]_vars

----------------------------------------------------------------------------
(* The earlier sessions package for PostgreSQL: a session holds a creation  *)
(* date, an ID and the ID of the signed-in user (0: nobody); the table      *)
(* sessions has the columns date_created, id (unique) and user_id.          *)

\* Length of a session ID: the Base64 text of 66 random bytes.
SessionIdLength == 88

\* IDs that generateSessionId returns.
OldGenIDs == {[i \in 1..SessionIdLength |-> c] : c \in {"r", "/"}}

\* What the cookie "s" of a request can hold: nothing, a generated ID, or
\* a text around one.
OldCarriedIDs == {<<>>} \cup OldGenIDs \cup {<<"-">> \o id : id \in OldGenIDs}

UserIds == {1, 2}

\* regExpSessionId, [0-9a-zA-Z=/+]{88}, matches anywhere in the text.
isSessionId(id) ==
    \E k \in 0..(Len(id) - SessionIdLength) :
        \A i \in 1..SessionIdLength : id[k + i] \in PatternChars

OldSession(id, now) ==
    [id |-> id, dateCreated |-> now, userId |-> 0, isPersistent |-> FALSE]

\* INSERT INTO sessions ... ON CONFLICT DO NOTHING
InsertOrIgnore(table, id, row) ==
    [k \in DOMAIN table \cup {id} |-> IF k \in DOMAIN table THEN table[k] ELSE row]

\* Session.Save of the earlier package
OldSave(table, s, fault) ==
    IF fault = "db"
    THEN [err |-> TRUE, table |-> table]
    ELSE [err |-> FALSE,
          table |-> InsertOrIgnore(table, s.id,
                        [date_created |-> s.dateCreated, user_id |-> s.userId])]

\* sessions.Get of the earlier package
OldGet(table, carried, fresh, now, fault) ==
    LET new == IF fault = "rand"
               THEN [err |-> TRUE, session |-> <<>>]
               ELSE [err |-> FALSE, session |-> <<OldSession(fresh, now)>>]
    IN  IF carried = <<>> \/ ~isSessionId(carried) THEN new
        ELSE IF fault = "db" THEN [err |-> TRUE, session |-> <<>>]
        ELSE IF carried \notin DOMAIN table THEN new
        ELSE [err |-> FALSE,
              session |-> <<[id |-> carried,
                             dateCreated |-> table[carried].date_created,
                             userId |-> table[carried].user_id,
                             isPersistent |-> TRUE]>>]

\* IDs the generator can return: random, so none that is in use.
OldFreshIDs ==
    {id \in OldGenIDs : id \notin DOMAIN db
                        /\ \A q \in Reqs : sess[q] = <<>> \/ sess[q][1].id # id}

\* session, err := sessions.Get(ctx)
CallOldGet(q, carried, now, fault) ==
    \E fresh \in OldGenIDs :
        LET r == OldGet(db, carried, fresh, now, fault)
        IN  /\ (~r.err /\ r.session[1].id = fresh /\ ~r.session[1].isPersistent) =>
                   fresh \in OldFreshIDs \ {carried}
            /\ sess' = [sess EXCEPT ![q] = r.session]
            /\ slast' = [StoreCall("Get", q, ~r.err) EXCEPT !.carried = carried]
            /\ UNCHANGED <<db, held, drained>>

\* session.SignIn(userId, username, isAdmin)
CallOldSignIn(q, userId) ==
    /\ sess[q] # <<>>
    /\ sess' = [sess EXCEPT ![q] = <<[sess[q][1] EXCEPT !.userId = userId]>>]
    /\ slast' = StoreCall("SignIn", q, TRUE)
    /\ UNCHANGED <<db, held, drained>>

\* err := session.Save()
CallOldSave(q, fault) ==
    /\ sess[q] # <<>>
    /\ LET s == sess[q][1]
           r == OldSave(db, s, fault)
       IN  /\ db' = r.table
           /\ slast' = [StoreCall("Save", q, ~r.err) EXCEPT
                           !.row = IF r.err THEN <<>>
                                   ELSE <<[id |-> s.id,
                                           row |-> [date_created |-> s.dateCreated,
                                                    user_id |-> s.userId]]>>]
    /\ UNCHANGED <<sess, held, drained>>

\* err := session.Expire()
CallOldExpire(q, fault) ==
    /\ sess[q] # <<>>
    /\ LET s == sess[q][1]
       IN  IF fault = "db"
           THEN /\ slast' = StoreCall("Expire", q, FALSE)
                /\ UNCHANGED <<db, sess>>
           ELSE /\ db' = DeleteRow(db, s.id)
                /\ sess' = [sess EXCEPT ![q] =
                               <<[s EXCEPT !.userId = 0, !.isPersistent = FALSE]>>]
                /\ slast' = StoreCall("Expire", q, TRUE)
    /\ UNCHANGED <<held, drained>>

NextOld ==
    /\ calls < MaxCalls
    /\ calls' = calls + 1
    /\ \/ \E q \in Reqs, carried \in OldCarriedIDs, now \in Dates, fault \in Faults :
              CallOldGet(q, carried, now, fault)
       \/ \E q \in Reqs, userId \in UserIds : CallOldSignIn(q, userId)
       \/ \E q \in Reqs, fault \in Faults \ {"rand"} : CallOldSave(q, fault)
       \/ \E q \in Reqs, fault \in Faults \ {"rand"} : CallOldExpire(q, fault)
    /\ UNCHANGED <<langVars, concVars, libVars>>

SpecOld == InitSess /\ [][NextOld]_vars

----------------------------------------------------------------------------
(* users/roles: Permissions, a map from permission to bool *)

PermissionNames == {"A", "B", "C"}

\* Argument lists of Add, HasOne and Remove.
PermissionLists ==
    {<<>>} \cup {<<a>> : a \in PermissionNames}
           \cup {<<a, b>> : a, b \in PermissionNames}

RECURSIVE PermissionsAddFrom(_, _, _)
PermissionsAddFrom(p, list, i) ==
    IF i > Len(list) THEN p
    ELSE PermissionsAddFrom([k \in DOMAIN p \cup {list[i]} |->
                                IF k = list[i] THEN TRUE ELSE p[k]], list, i + 1)

PermissionsAdd(p, list) == PermissionsAddFrom(p, list, 1)

PermissionsHas(p, permission) ==
    LET isPresent == permission \in DOMAIN p
    IN  isPresent

RECURSIVE PermissionsHasOneFrom(_, _, _)
PermissionsHasOneFrom(p, list, i) ==
    IF i > Len(list) THEN FALSE
    ELSE IF list[i] \in DOMAIN p THEN TRUE
    ELSE PermissionsHasOneFrom(p, list, i + 1)

PermissionsHasOne(p, list) == PermissionsHasOneFrom(p, list, 1)

PermissionsRemove(p, list) ==
    [k \in DOMAIN p \ {list[i] : i \in 1..Len(list)} |-> p[k]]

PermissionCall(op, list, result) ==
    [op |-> op, permissions |-> list, result |-> result]

\* permissions.Add(list...)
CallPermissionsAdd(list) ==
    /\ permissions' = PermissionsAdd(permissions, list)
    /\ hlast' = PermissionCall("Add", list, FALSE)

\* permissions.Remove(list...)
CallPermissionsRemove(list) ==
    /\ permissions' = PermissionsRemove(permissions, list)
    /\ hlast' = PermissionCall("Remove", list, FALSE)

\* permissions[permission] = value, an assignment to the map itself
AssignPermission(permission, value) ==
    /\ permissions' = [k \in DOMAIN permissions \cup {permission} |->
                          IF k = permission THEN value ELSE permissions[k]]
    /\ hlast' = PermissionCall("Assign", <<permission>>, FALSE)

\* permissions.Has(permission)
CallPermissionsHas(permission) ==
    /\ hlast' = PermissionCall("Has", <<permission>>,
                               PermissionsHas(permissions, permission))
    /\ UNCHANGED permissions

\* permissions.HasOne(list...)
CallPermissionsHasOne(list) ==
    /\ hlast' = PermissionCall("HasOne", list, PermissionsHasOne(permissions, list))
    /\ UNCHANGED permissions

InitPerm ==
    /\ NoRequests
    /\ NoTranslations
    /\ NoSessions
    /\ NoLibCalls

NextPerm ==
    /\ \/ \E list \in PermissionLists : CallPermissionsAdd(list)
       \/ \E list \in PermissionLists : CallPermissionsRemove(list)
       \/ \E permission \in PermissionNames, value \in BOOLEAN :
              AssignPermission(permission, value)
       \/ \E permission \in PermissionNames : CallPermissionsHas(permission)
       \/ \E list \in PermissionLists : CallPermissionsHasOne(list)
    /\ UNCHANGED <<langVars, concVars, sessVars, paramVars, flashVars, webVars, textVars,
                 multiVars, raceVars>>

SpecPerm == InitPerm /\ [][NextPerm]_vars

----------------------------------------------------------------------------
(***************************************************************************)
(* params: Parser.Parse writes the parameters of a request into the fields *)
(* of a struct. A name and a parameter value are sequences of characters   *)
(* (a run of lower-case letters and digits may be written as one chunk).   *)
(* A destination is described by its reflect kind and, for a struct, by    *)
(* the list of its fields (name, param tag, type string). Of strconv, the  *)
(* decimal notation without exponent is modelled.                          *)
(***************************************************************************)
UpperCase == {"B", "I", "M", "S", "U", "T", "R", "E", "Y"}

LowerCase(c) ==
    CASE c = "B" -> "b" [] c = "I" -> "i" [] c = "M" -> "m" [] c = "S" -> "s"
      [] c = "U" -> "u" [] c = "T" -> "t" [] c = "R" -> "r" [] c = "E" -> "e"
      [] c = "Y" -> "y" [] OTHER -> c

\* strings.ToLower
ToLower(s) == [i \in DOMAIN s |-> LowerCase(s[i])]

Digits == <<"0", "1", "2", "3", "4", "5", "6", "7", "8", "9">>

IsDigits(s) == \A i \in DOMAIN s : \E d \in DOMAIN Digits : Digits[d] = s[i]

DigitValue(c) == (CHOOSE d \in DOMAIN Digits : Digits[d] = c) - 1

\* The number a sequence of decimal digits denotes.
RECURSIVE Number(_)
Number(s) ==
    IF s = <<>> THEN 0
    ELSE 10 * Number(SubSeq(s, 1, Len(s) - 1)) + DigitValue(s[Len(s)])

\* strconv.ParseUint(s, 10, bitSize): digits only, below 2^bitSize.
ParseUint(s, bitSize) ==
    IF s = <<>> \/ ~IsDigits(s) THEN [err |-> "invalid syntax", x |-> 0]
    ELSE IF Number(s) >= 2 ^ bitSize THEN [err |-> "value out of range", x |-> 0]
    ELSE [err |-> "", x |-> Number(s)]

\* strconv.ParseInt(s, 10, bitSize): an optional sign and digits, within
\* -2^(bitSize-1) .. 2^(bitSize-1) - 1.
ParseInt(s, bitSize) ==
    LET signed == s # <<>> /\ s[1] \in {"+", "-"}
        neg    == s # <<>> /\ s[1] = "-"
        digits == IF signed THEN Tail(s) ELSE s
        cutoff == 2 ^ (bitSize - 1)
    IN  IF digits = <<>> \/ ~IsDigits(digits)
        THEN [err |-> "invalid syntax", x |-> 0]
        ELSE IF (~neg /\ Number(digits) >= cutoff) \/ (neg /\ Number(digits) > cutoff)
        THEN [err |-> "value out of range", x |-> 0]
        ELSE [err |-> "", x |-> IF neg THEN 0 - Number(digits) ELSE Number(digits)]

\* strconv.ParseFloat(s, bitSize): an optional sign, digits and at most one
\* decimal point, with a digit on at least one side of it. The value is kept
\* as its sign, its whole part and the digits of its fraction. A bitSize
\* other than 32 stands for 64; the numbers of the model are exact in both.
ParseFloat(s, bitSize) ==
    LET signed == s # <<>> /\ s[1] \in {"+", "-"}
        neg    == s # <<>> /\ s[1] = "-"
        body   == IF signed THEN Tail(s) ELSE s
        points == {i \in DOMAIN body : body[i] = "."}
        point  == IF points = {} THEN Len(body) + 1 ELSE CHOOSE i \in points : TRUE
        whole  == SubSeq(body, 1, point - 1)
        frac   == SubSeq(body, point + 1, Len(body))
    IN  IF \/ Cardinality(points) > 1
           \/ ~IsDigits(whole) \/ ~IsDigits(frac)
           \/ (whole = <<>> /\ frac = <<>>)
        THEN [err |-> "invalid syntax", x |-> [neg |-> FALSE, whole |-> 0, frac |-> <<>>]]
        ELSE [err |-> "", x |-> [neg |-> neg, whole |-> Number(whole), frac |-> frac]]

\* What a build may do with a conversion of a floating-point number that the
\* integer type cannot represent: the result is implementation-dependent.
Conversions == {"wrap", "saturate"}

\* int8(x), uint8(x) for a float64 x: the fraction is discarded (truncation
\* towards zero); lo..hi is the range of the integer type.
FloatToInt(x, lo, hi, conversion) ==
    LET truncated == IF x.neg THEN 0 - x.whole ELSE x.whole
    IN  IF lo <= truncated /\ truncated <= hi THEN truncated
        ELSE IF conversion = "wrap" THEN lo + ((truncated - lo) % (hi - lo + 1))
        ELSE IF truncated < lo THEN lo ELSE hi

\* z
z(value) == IF value = <<>> THEN <<"0">> ELSE value

\* The comparison of the cases "bool" and "[]bool".
ParseBoolCaseSensitive(value) ==
    LET s == value
    IN  s = <<"1">> \/ s = <<"t", "r", "u", "e">> \/ s = <<"y", "e", "s">>

ParseBool(value) ==
    LET s == ToLower(value)
    IN  s = <<"1">> \/ s = <<"t", "r", "u", "e">> \/ s = <<"y", "e", "s">>

\* The loops of the slice cases: every value is converted, the first error
\* ends the call.
RECURSIVE SliceInt8(_, _, _, _)
SliceInt8(paramValues, i, s, conversion) ==
    IF i > Len(paramValues) THEN [err |-> "", x |-> s]
    ELSE LET f == ParseFloat(z(paramValues[i]), 8)
         IN  IF f.err # "" THEN [err |-> f.err, x |-> s]
             ELSE SliceInt8(paramValues, i + 1,
                            Append(s, FloatToInt(f.x, 0 - 128, 127, conversion)),
                            conversion)

RECURSIVE SliceUint8(_, _, _, _)
SliceUint8(paramValues, i, s, conversion) ==
    IF i > Len(paramValues) THEN [err |-> "", x |-> s]
    ELSE LET f == ParseFloat(z(paramValues[i]), 8)
         IN  IF f.err # "" THEN [err |-> f.err, x |-> s]
             ELSE SliceUint8(paramValues, i + 1,
                             Append(s, FloatToInt(f.x, 0, 255, conversion)),
                             conversion)

\* The type switch of Parse: the value written to a field of the type, or
\* the error returned.
Convert(type, paramValues, conversion) ==
    CASE type = "bool"     -> [err |-> "", x |-> ParseBool(paramValues[1])]
      [] type = "int8"     -> ParseInt(z(paramValues[1]), 8)
      [] type = "string"   -> [err |-> "", x |-> paramValues[1]]
      [] type = "uint8"    -> ParseUint(z(paramValues[1]), 8)
      [] type = "[]bool"   -> [err |-> "",
                               x |-> [i \in DOMAIN paramValues |-> ParseBool(paramValues[i])]]
      [] type = "[]int8"   -> SliceInt8(paramValues, 1, <<>>, conversion)
      [] type = "[]string" -> [err |-> "", x |-> paramValues]
      [] type = "[]uint8"  -> SliceUint8(paramValues, 1, <<>>, conversion)
      [] OTHER             -> [err |-> "unsupported field type", x |-> <<>>]

\* Parser.param: a route parameter of the name, else the form's values.
param(p, name) ==
    LET matches == {i \in DOMAIN p.routerParams : p.routerParams[i].Key = name}
    IN  IF matches # {}
        THEN <<p.routerParams[CHOOSE i \in matches : \A j \in matches : i <= j].Value>>
        ELSE IF name \in DOMAIN p.Form THEN p.Form[name]
        ELSE <<>>

\* The parameter name of a field: its param tag, else its name.
ParamNameLowercased(field) ==
    IF field.Tag # <<>> THEN field.Tag ELSE ToLower(field.Name)

ParamName(field) ==
    IF field.Tag # <<>> THEN field.Tag ELSE field.Name

\* The loop of Parse over the fields i.. of the struct.
RECURSIVE ParseFields(_, _, _, _, _)
ParseFields(p, fields, i, dest, conversion) ==
    IF i > Len(fields) THEN [err |-> "", dest |-> dest]
    ELSE LET paramValues == param(p, ParamName(fields[i]))
         IN  IF Len(paramValues) = 0
             THEN ParseFields(p, fields, i + 1, dest, conversion)
             ELSE LET c == Convert(fields[i].Type, paramValues, conversion)
                  IN  IF c.err # "" THEN [err |-> c.err, dest |-> dest]
                      ELSE ParseFields(p, fields, i + 1,
                                       [dest EXCEPT ![i] = c.x], conversion)

\* The zero value of a field.
Zero(type) ==
    CASE type = "bool" -> FALSE
      [] type \in {"int8", "uint8"} -> 0
      [] OTHER -> <<>>

\* Parser.Parse, with no AfterParse set.
ParserParse(p, dest, conversion) ==
    IF dest.Kind # "ptr" \/ dest.Elem # "struct"
    THEN [err |-> "argument must be a pointer to a struct", dest |-> <<>>]
    ELSE ParseFields(p, dest.Fields, 1,
                     [i \in DOMAIN dest.Fields |-> Zero(dest.Fields[i].Type)],
                     conversion)

StructField(name, tag, type) == [Name |-> name, Tag |-> tag, Type |-> type]

\* Fields of the destination Dest1 of the tests, one of each type modelled,
\* and the destination Dest3 with its map.
Dest1 ==
    << StructField(<<"B", "ool1">>, <<>>, "bool"),
       StructField(<<"I", "nt8">>, <<>>, "int8"),
       StructField(<<"S", "tring2">>, <<"custom_name_string2">>, "string"),
       StructField(<<"U", "int8">>, <<>>, "uint8"),
       StructField(<<"S", "bool1">>, <<>>, "[]bool"),
       StructField(<<"S", "int8">>, <<>>, "[]int8"),
       StructField(<<"S", "string2">>, <<"custom_name_sstring2">>, "[]string"),
       StructField(<<"S", "uint8">>, <<>>, "[]uint8") >>

Dest3 == << StructField(<<"M", "ap">>, <<>>, "map[string]string") >>

\* The arguments of Parse: a pointer to a struct, a struct, a pointer to
\* something else, and nil.
Destination(kind, elem, fields) == [Kind |-> kind, Elem |-> elem, Fields |-> fields]

Dests ==
    { Destination("ptr", "struct", Dest1), Destination("ptr", "struct", Dest3),
      Destination("struct", "", Dest1), Destination("ptr", "int", <<>>),
      Destination("invalid", "", <<>>) }

AllFields == {Dest1[i] : i \in DOMAIN Dest1} \cup {Dest3[i] : i \in DOMAIN Dest3}

ParamNames ==
    {f.Name : f \in AllFields} \cup {ToLower(f.Name) : f \in AllFields}
        \cup {f.Tag : f \in {g \in AllFields : g.Tag # <<>>}}

ParamValues ==
    { <<>>, <<"0">>, <<"1">>, <<"8">>, <<"t", "r", "u", "e">>, <<"T", "R", "U", "E">>,
      <<"Y", "e", "s">>, <<"n", "o">>, <<"f", "a", "l", "s", "e">>, <<"f", "o", "o">>,
      <<"1", "2", "7">>, <<"-", "1", "2", "8">>, <<"-", "1", "2", "9">>, <<"-", "1">>,
      <<"2", "5", "5">>, <<"3", "0", "0">>, <<"1", ".", "5">> }

SliceValues ==
    { <<>>, <<"1">>, <<"Y", "e", "s">>, <<"n", "o">>, <<"3", "0", "0">>, <<"1", ".", "5">> }

ValueLists ==
    {<<>>} \cup {<<v>> : v \in ParamValues} \cup {<<v, w>> : v, w \in SliceValues}

\* request.Form: nil, one parameter, or two parameters of one value each.
Forms ==
    {<<>>} \cup {[n \in {name} |-> list] : name \in ParamNames, list \in ValueLists}
           \cup {[n \in {name, other} |-> IF n = name THEN << <<"1">> >> ELSE <<v>>] :
                    name \in ParamNames, other \in ParamNames,
                    v \in {<<"1">>, <<"f", "o", "o">>}}

RouterParams ==
    { <<>>, <<[Key |-> <<"I", "nt8">>, Value |-> <<"8">>]>> }

Parsers == [routerParams : RouterParams, Form : Forms]

\* Parse(dest) of the parser; a conversion out of range does what the build does.
CallParse(conversion) ==
    /\ plast.op = "none"
    /\ plast' = [op |-> "Parse"] @@ ParserParse(parser.p, parser.dest, conversion)
    /\ UNCHANGED parser

\* What the function in Parser.AfterParse returns: nil or an error.
AfterParseResults == {"", "validation failed"}

\* Parser.Parse with AfterParse set: the function is called with dest once the
\* loop over the fields has ended without error, and Parse returns what it
\* returns. after counts its calls, fieldErr is the error of the loop.
ParseWithAfterParse(p, dest, conversion, result) ==
    LET r == ParserParse(p, dest, conversion)
    IN  IF r.err # ""
        THEN [err |-> r.err, dest |-> r.dest, fieldErr |-> r.err, after |-> 0]
        ELSE [err |-> result, dest |-> r.dest, fieldErr |-> "", after |-> 1]

\* Parse(dest) of the parser after parser.AfterParse = function
CallParseWithAfterParse(conversion, result) ==
    /\ plast.op = "none"
    /\ plast' = [op |-> "ParseWithAfterParse"]
                    @@ ParseWithAfterParse(parser.p, parser.dest, conversion, result)
    /\ UNCHANGED parser

InitParams ==
    /\ NoRequests
    /\ NoTranslations
    /\ NoSessions
    /\ NoPermissions
    /\ NoFlashList
    /\ NoWebApp
    /\ NoTexts
    /\ NoBatch
    /\ NoRace
    /\ parser \in [p : Parsers, dest : Dests]
    /\ plast = NoParseCall

NextParams ==
    /\ \/ \E conversion \in Conversions : CallParse(conversion)
       \/ \E conversion \in Conversions, result \in AfterParseResults :
              CallParseWithAfterParse(conversion, result)
    /\ UNCHANGED <<langVars, concVars, sessVars, permVars, flashVars, webVars, textVars,
                 multiVars, raceVars>>

SpecParams == InitParams /\ [][NextParams]_vars

----------------------------------------------------------------------------
(***************************************************************************)
(* Removing flashes from a list of flashes: flashes.Remove of package      *)
(* sessions, and Session.RemoveFlash of the earlier sessions package. A     *)
(* flash is named by what == compares: the pointer NewFlash returned, or    *)
(* the value of the Flash struct. The list is of one of the two kinds.      *)
(***************************************************************************)
MaxList == 4

FlashNames == {"A", "B", "C", "D"}

\* The flash list of the sessions package (flashes), of the earlier package
\* (Session) and of the version with the exported field (Session.Flashes).
FlashKinds == {"flashes", "Session", "Session.Flashes"}

\* Argument lists of flashes.Add and flashes.Remove.
FlashLists ==
    {<<>>} \cup {<<a>> : a \in FlashNames} \cup {<<a, b>> : a, b \in FlashNames}

\* append(ff[:i], ff[i+1:]...) for the position i (counted from 1)
WithoutIndex(ff, i) == SubSeq(ff, 1, i - 1) \o SubSeq(ff, i + 1, Len(ff))

\* The inner loop of flashes.Remove: i is incremented after a removal too.
RECURSIVE FlashesRemoveOne(_, _, _)
FlashesRemoveOne(ff, flash, i) ==
    IF i > Len(ff) THEN ff
    ELSE IF ff[i] = flash THEN FlashesRemoveOne(WithoutIndex(ff, i), flash, i + 1)
    ELSE FlashesRemoveOne(ff, flash, i + 1)

\* The outer loop of flashes.Remove over the flashes given.
RECURSIVE FlashesRemoveFrom(_, _, _)
FlashesRemoveFrom(ff, list, k) ==
    IF k > Len(list) THEN ff
    ELSE FlashesRemoveFrom(FlashesRemoveOne(ff, list[k], 1), list, k + 1)

\* flashes.Remove
FlashesRemove(ff, list) == FlashesRemoveFrom(ff, list, 1)

\* Session.RemoveFlash: the range loop runs over the slice as it was when
\* the loop began and reads its elements from the array that the removals
\* shift; len is the length of s.flashes now. The slice expression
\* s.flashes[i+1:] panics when i+1 is beyond that length.
RECURSIVE RemoveFlashFrom(_, _, _, _)
RemoveFlashFrom(array, len, flash, i) ==
    IF i > Len(array) THEN [panicked |-> FALSE, flashes |-> SubSeq(array, 1, len)]
    ELSE IF array[i] # flash THEN RemoveFlashFrom(array, len, flash, i + 1)
    ELSE IF i > len THEN [panicked |-> TRUE, flashes |-> SubSeq(array, 1, len)]
    ELSE RemoveFlashFrom(WithoutIndex(SubSeq(array, 1, len), i)
                             \o SubSeq(array, len, Len(array)),
                         len - 1, flash, i + 1)

\* Session.RemoveFlash
RemoveFlash(sflashes, flash) == RemoveFlashFrom(sflashes, Len(sflashes), flash, 1)

\* Session.RemoveFlash of the version with the exported field Flashes: the
\* range loop counts up to the length n the slice had when the loop began,
\* and s.Flashes[i] indexes the slice as the removals have left it, which
\* panics when i is beyond its length.
RECURSIVE RemoveFlashAt(_, _, _, _)
RemoveFlashAt(ff, n, flash, i) ==
    IF i > n THEN [panicked |-> FALSE, flashes |-> ff]
    ELSE IF i > Len(ff) THEN [panicked |-> TRUE, flashes |-> ff]
    ELSE IF ff[i] = flash THEN RemoveFlashAt(WithoutIndex(ff, i), n, flash, i + 1)
    ELSE RemoveFlashAt(ff, n, flash, i + 1)

RemoveFlashByIndex(ff, flash) == RemoveFlashAt(ff, Len(ff), flash, 1)

RemoveCall(op, list, before, panicked) ==
    [op |-> op, flashes |-> list, before |-> before, panicked |-> panicked]

\* flashes.Add(list...)
CallFlashesAdd(list) ==
    /\ fkind = "flashes" /\ ~rlast.panicked
    /\ Len(flist) + Len(list) <= MaxList
    /\ flist' = FlashesAdd(flist, list)
    /\ rlast' = RemoveCall("Add", list, flist, FALSE)
    /\ UNCHANGED fkind

\* flashes.Remove(list...)
CallFlashesRemove(list) ==
    /\ fkind = "flashes" /\ ~rlast.panicked
    /\ flist' = FlashesRemove(flist, list)
    /\ rlast' = RemoveCall("Remove", list, flist, FALSE)
    /\ UNCHANGED fkind

\* session.AddFlashError(message), session.AddFlashInfo(message),
\* session.AddFlash(message)
CallAddFlash(flash) ==
    /\ fkind # "flashes" /\ ~rlast.panicked
    /\ Len(flist) < MaxList
    /\ flist' = Append(flist, flash)
    /\ rlast' = RemoveCall("Add", <<flash>>, flist, FALSE)
    /\ UNCHANGED fkind

\* session.RemoveFlash(flash)
CallRemoveFlash(flash) ==
    /\ fkind # "flashes" /\ ~rlast.panicked
    /\ LET r == IF fkind = "Session" THEN RemoveFlash(flist, flash)
                ELSE RemoveFlashByIndex(flist, flash)
       IN  /\ flist' = r.flashes
           /\ rlast' = RemoveCall("Remove", <<flash>>, flist, r.panicked)
    /\ UNCHANGED fkind

InitFlashes ==
    /\ NoRequests
    /\ NoTranslations
    /\ NoSessions
    /\ NoPermissions
    /\ NoParsing
    /\ NoWebApp
    /\ NoTexts
    /\ NoBatch
    /\ NoRace
    /\ fkind \in FlashKinds
    /\ flist = <<>>
    /\ rlast = NoRemoveCall

NextFlashes ==
    /\ \/ \E list \in FlashLists : CallFlashesAdd(list)
       \/ \E list \in FlashLists : CallFlashesRemove(list)
       \/ \E flash \in FlashNames : CallAddFlash(flash)
       \/ \E flash \in FlashNames : CallRemoveFlash(flash)
    /\ UNCHANGED <<langVars, concVars, sessVars, permVars, paramVars, webVars, textVars,
                 multiVars, raceVars>>

SpecFlashes == InitFlashes /\ [][NextFlashes]_vars

----------------------------------------------------------------------------
(***************************************************************************)
(* webapps: WebApp.AddHook, WebApp.AddRoute and the requests the router    *)
(* serves. A handle is the list of the hooks wrapped around the route's    *)
(* handle function, the innermost first; a hook is named by the function   *)
(* that made it. The router panics when a method and path are registered   *)
(* twice, so a path is routed once and with distinct methods.              *)
(***************************************************************************)
HookNames == {"LanguageHook", "SessionHook"}

Methods == {"GET", "POST"}

MethodLists == {<<>>, <<"GET">>, <<"POST">>, <<"GET", "POST">>, <<"POST", "GET">>}

Paths == {"/a", "/b"}

\* A request: whether its language is one of langs, whether the session
\* store returns its session.
Requests ==
    [method : Methods, path : Paths, languageSupported : BOOLEAN, sessionFound : BOOLEAN]

\* handle = hook(handle)
WrapSkipsHook(handle, hook) == handle

Wrap(handle, hook) == Append(handle, hook)

\* The inner loop of AddRoute: every hook of w.hooks wraps the handle.
RECURSIVE WrapAll(_, _, _)
WrapAll(handle, hookList, i) ==
    IF i > Len(hookList) THEN handle
    ELSE WrapAll(Wrap(handle, hookList[i]), hookList, i + 1)

\* The outer loop of AddRoute: the variable handle is wrapped again for every
\* method and registered for the method.
RECURSIVE AddRouteFrom(_, _, _, _, _, _)
AddRouteFrom(routes, hookList, path, handle, methods, k) ==
    IF k > Len(methods) THEN routes
    ELSE LET wrapped == WrapAll(handle, hookList, 1)
             route   == <<methods[k], path>>
         IN  AddRouteFrom([r \in DOMAIN routes \cup {route} |->
                              IF r = route THEN wrapped ELSE routes[r]],
                          hookList, path, wrapped, methods, k + 1)

\* What the handle does with a request: the hooks run from the outermost
\* inwards, then the route's handle function. LanguageHook redirects and
\* returns when the language is not supported; SessionHook always goes on.
RECURSIVE ServeFrom(_, _, _, _)
ServeFrom(handle, i, request, trace) ==
    IF i = 0 THEN Append(trace, "handle")
    ELSE IF handle[i] = "LanguageHook" /\ ~request.languageSupported
         THEN Append(trace, handle[i])
    ELSE ServeFrom(handle, i - 1, request, Append(trace, handle[i]))

Serve(handle, request) == ServeFrom(handle, Len(handle), request, <<>>)

\* w.AddHook(hook), with a hook made by LanguageHook or SessionHook
AddHook(hook) ==
    /\ \A i \in DOMAIN hooks : hooks[i] # hook
    /\ hooks' = Append(hooks, hook)
    /\ history' = Append(history, [op |-> "AddHook", hook |-> hook, path |-> ""])
    /\ wlast' = [NoWebCall EXCEPT !.op = "AddHook"]
    /\ UNCHANGED router

\* w.AddRoute(path, handle, methods...)
AddRoute(path, methods) ==
    /\ \A i \in DOMAIN history : history[i].path # path
    /\ router' = AddRouteFrom(router, hooks, path, <<>>, methods, 1)
    /\ history' = Append(history, [op |-> "AddRoute", hook |-> "", path |-> path])
    /\ wlast' = [NoWebCall EXCEPT !.op = "AddRoute"]
    /\ UNCHANGED hooks

\* The router serves a request for a route it has.
ServeHTTP(request) ==
    /\ <<request.method, request.path>> \in DOMAIN router
    /\ wlast' = [op |-> "ServeHTTP", request |-> <<request>>,
                 trace |-> Serve(router[<<request.method, request.path>>], request)]
    /\ UNCHANGED <<hooks, router, history>>

InitWeb ==
    /\ NoRequests
    /\ NoTranslations
    /\ NoSessions
    /\ NoLibCalls

NextWeb ==
    /\ \/ \E hook \in HookNames : AddHook(hook)
       \/ \E path \in Paths, methods \in MethodLists : AddRoute(path, methods)
       \/ \E request \in Requests : ServeHTTP(request)
    /\ UNCHANGED <<langVars, concVars, sessVars, permVars, paramVars, flashVars, textVars,
                 multiVars, raceVars>>

SpecWeb == InitWeb /\ [][NextWeb]_vars

----------------------------------------------------------------------------
(***************************************************************************)
(* texts: Truncate. A string is the sequence of what utf8 decoding makes   *)
(* one rune of: a character, or a single byte that is not valid UTF-8.     *)
(* Ranging over a string and []rune(s) turn such a byte into U+FFFD.       *)
(***************************************************************************)
MaxRunes == 4

InvalidByte == "0xFF"

ReplacementChar == "U+FFFD"

\* A letter, a space, the ellipsis, and a byte that is not valid UTF-8.
Characters == {"L", " ", "U+2026", InvalidByte}

\* The rune that range and []rune(s) give for an element of a string.
Rune(c) == IF c = InvalidByte THEN ReplacementChar ELSE c

Runes(s) == [i \in DOMAIN s |-> Rune(s[i])]

\* utf8.RuneCountInString
RuneCountInString(s) == Len(s)

\* unicode.IsSpace
IsSpace(character) == character = " "

\* The loop of the exact case: runes are taken until the text without
\* suffix is full.
RECURSIVE TruncateExact(_, _, _, _)
TruncateExact(text, i, truncatedText, maxLengthWithoutSuffix) ==
    IF i > Len(text) \/ Len(truncatedText) = maxLengthWithoutSuffix THEN truncatedText
    ELSE TruncateExact(text, i + 1, Append(truncatedText, Rune(text[i])),
                       maxLengthWithoutSuffix)

\* The test that ends the loop of the other case at the end of a word.
ExceedsWithoutSuffix(truncatedText, word, suffixLength, maxLength) ==
    Len(truncatedText) + Len(word) > maxLength

Exceeds(truncatedText, word, suffixLength, maxLength) ==
    Len(truncatedText) + Len(word) + suffixLength > maxLength

\* The loop of the other case: a word is taken with the space that ends it.
RECURSIVE TruncateWords(_, _, _, _, _, _)
TruncateWords(text, i, truncatedText, word, suffixLength, maxLength) ==
    IF i > Len(text) THEN truncatedText
    ELSE LET character == Rune(text[i])
             grown     == Append(word, character)
         IN  IF ~IsSpace(character)
             THEN TruncateWords(text, i + 1, truncatedText, grown, suffixLength, maxLength)
             ELSE IF Exceeds(truncatedText, grown, suffixLength, maxLength)
             THEN truncatedText
             ELSE TruncateWords(text, i + 1, truncatedText \o grown, <<>>,
                                suffixLength, maxLength)

\* Truncate
Truncate(text, maxLength, suffix, exact) ==
    IF RuneCountInString(text) <= maxLength THEN text
    ELSE LET suffixLength == RuneCountInString(suffix)
         IN  IF suffixLength > maxLength THEN <<>>
             ELSE (IF exact
                   THEN TruncateExact(text, 1, <<>>, maxLength - suffixLength)
                   ELSE TruncateWords(text, 1, <<>>, <<>>, suffixLength, maxLength))
                      \o Runes(suffix)

RECURSIVE StringsUpTo(_)
StringsUpTo(n) ==
    IF n = 0 THEN {<<>>}
    ELSE StringsUpTo(n - 1)
             \cup {Append(s, c) : s \in {t \in StringsUpTo(n - 1) : Len(t) = n - 1},
                                  c \in Characters \ {"U+2026"}}

TruncateTexts == StringsUpTo(MaxRunes)

\* "", the ellipsis, three full stops, and a byte that is not valid UTF-8.
Suffixes == {<<>>, <<"U+2026">>, <<".", ".", ".">>, <<InvalidByte>>}

MaxLengths == (0 - 1) .. (MaxRunes + 1)

\* Truncate(text, maxLength, suffix, exact)
CallTruncate ==
    /\ tlast.op = "none"
    /\ tlast' = [op |-> "Truncate",
                 result |-> Truncate(truncation.text, truncation.maxLength,
                                     truncation.suffix, truncation.exact)]
    /\ UNCHANGED truncation

InitTexts ==
    /\ NoRequests
    /\ NoTranslations
    /\ NoSessions
    /\ NoPermissions
    /\ NoParsing
    /\ NoFlashList
    /\ NoWebApp
    /\ NoBatch
    /\ NoRace
    /\ truncation \in [text : TruncateTexts, maxLength : MaxLengths,
                       suffix : Suffixes, exact : BOOLEAN]
    /\ tlast = NoTruncateCall

NextTexts ==
    /\ CallTruncate
    /\ UNCHANGED <<langVars, concVars, sessVars, permVars, paramVars, flashVars, webVars,
                 multiVars, raceVars>>

SpecTexts == InitTexts /\ [][NextTexts]_vars

----------------------------------------------------------------------------
(* Several sessions held at once, and Store.SaveMulti *)

\* Sessions the application holds at once, and calls made on them in one run.
MaxBatch == 2

MaxMultiCalls == 5

\* Outcomes of the environment during SaveMulti: all goes well, or one call
\* returns an error: DB.Begin, tx.Prepare, json.Marshal or statement.Exec for
\* the k-th session, tx.Commit.
MultiFaults ==
    {[at |-> a, k |-> 0] : a \in {"none", "begin", "prepare", "commit"}}
        \cup {[at |-> a, k |-> k] : a \in {"marshal", "exec"}, k \in 1..MaxBatch}

\* The loop of SaveMulti over the sessions from the k-th on, in transaction tx:
\* the rows as the transaction sees them, and whether the loop returned an error.
RECURSIVE SaveMultiFrom(_, _, _, _)
SaveMultiFrom(tx, list, k, fault) ==
    IF k > Len(list) THEN [err |-> FALSE, tx |-> tx]
    ELSE IF fault.k = k /\ fault.at \in {"marshal", "exec"}
    THEN [err |-> TRUE, tx |-> tx]
    ELSE SaveMultiFrom(Upsert(tx, list[k].id, Row(list[k])), list, k + 1, fault)

RollbackKeeps(table, tx) == tx

\* tx.Rollback (deferred): the table as it was when the transaction began.
Rollback(table, tx) == table

\* tx.Commit: the table as the transaction has left it.
Commit(table, tx) == tx

\* Store.SaveMulti. It does not touch the sessions it is given.
SaveMulti(table, list, fault) ==
    LET loop == SaveMultiFrom(table, list, 1, fault)
    IN  IF fault.at = "begin"
        THEN [err |-> TRUE, table |-> table, sessions |-> list]
        ELSE IF fault.at = "prepare"
        THEN [err |-> TRUE, table |-> Rollback(table, table), sessions |-> list]
        ELSE IF loop.err \/ fault.at = "commit"
        THEN [err |-> TRUE, table |-> Rollback(table, loop.tx), sessions |-> list]
        ELSE [err |-> FALSE, table |-> Commit(table, loop.tx), sessions |-> list]

MultiCall(op, i, ok) ==
    [op |-> op, i |-> i, ok |-> ok, before |-> batch, table |-> db]

\* IDs the generator can return: random, so none that is in use.
MultiFreshIDs ==
    {id \in GenIDs : id \notin DOMAIN db
                     /\ \A i \in 1..Len(batch) : batch[i].id # id}

\* sessions.NewSession(store, id)
MultiNewSession(id, now) ==
    /\ Len(batch) < MaxBatch
    /\ batch' = Append(batch, NewSession(id, now))
    /\ mlast' = MultiCall("NewSession", Len(batch) + 1, TRUE)
    /\ UNCHANGED db

\* store.Get(writer, request), the session kept next to the others
MultiGet(carried, now, fault) ==
    /\ Len(batch) < MaxBatch
    /\ \E fresh \in GenIDs :
        LET r == StoreGet(db, carried, fresh, now, fault)
        IN  /\ (~r.err /\ r.session[1].id = fresh) => fresh \in MultiFreshIDs \ {carried}
            /\ batch' = batch \o r.session
            /\ mlast' = MultiCall("Get", Len(batch) + 1, ~r.err)
            /\ UNCHANGED db

\* batch[i].Flashes().AddNew(message, flashType...)
MultiAddNew(i, args) ==
    /\ i \in 1..Len(batch)
    /\ Len(batch[i].flashes) < MaxFlashes
    /\ batch' = [batch EXCEPT ![i].flashes = FlashesAddNew(@, args)]
    /\ mlast' = MultiCall("AddNew", i, TRUE)
    /\ UNCHANGED db

\* batch[i].Save(writer)
MultiSave(i, fault) ==
    /\ i \in 1..Len(batch)
    /\ LET r == StoreSave(db, batch[i], fault)
       IN  /\ db' = r.table
           /\ batch' = [batch EXCEPT ![i] = r.session]
           /\ mlast' = MultiCall("Save", i, ~r.err)

\* batch[i].Delete(writer)
MultiDelete(i, fault) ==
    /\ i \in 1..Len(batch)
    /\ LET r == SessionDelete(db, batch[i], fault)
       IN  /\ db' = r.table
           /\ batch' = [batch EXCEPT ![i] = r.session]
           /\ mlast' = MultiCall("Delete", i, ~r.err)

\* store.SaveMulti(batch)
CallSaveMulti(fault) ==
    LET r == SaveMulti(db, batch, fault)
    IN  /\ db' = r.table
        /\ batch' = r.sessions
        /\ mlast' = MultiCall("SaveMulti", 0, ~r.err)

InitMulti ==
    /\ NoRequests
    /\ NoTranslations
    /\ NoSessions
    /\ NoLibCalls

NextMulti ==
    /\ calls < MaxMultiCalls
    /\ calls' = calls + 1
    /\ \/ \E id \in AppIDs, now \in Dates : MultiNewSession(id, now)
       \/ \E carried \in CarriedIDs, now \in Dates, fault \in Faults :
              MultiGet(carried, now, fault)
       \/ \E i \in 1..MaxBatch, args \in FlashArgs : MultiAddNew(i, args)
       \/ \E i \in 1..MaxBatch, fault \in Faults \ {"rand"} : MultiSave(i, fault)
       \/ \E i \in 1..MaxBatch, fault \in Faults \ {"rand"} : MultiDelete(i, fault)
       \/ \E fault \in MultiFaults : CallSaveMulti(fault)
    /\ UNCHANGED <<langVars, concVars, sess, held, drained, slast, permVars,
                 paramVars, flashVars, webVars, textVars, raceVars>>

SpecMulti == InitMulti /\ [][NextMulti]_vars

(* Two requests of one client, served at the same time *)

\* The flash lists a session can hold: built with AddNew, up to n flashes.
RECURSIVE FlashListsUpTo(_)
FlashListsUpTo(n) ==
    IF n = 0 THEN {<<>>}
    ELSE LET shorter == FlashListsUpTo(n - 1)
         IN  shorter \cup {FlashesAddNew(ff, args) : ff \in shorter, args \in FlashArgs}

\* The session both requests carry the ID of, as an earlier request saved it.
RaceStored ==
    {[NewSession(id, now) EXCEPT !.flashes = ff] :
        id \in GenIDs, now \in Dates, ff \in FlashListsUpTo(MaxFlashes)}

\* The handler of request q calls store.Get: one SELECT.
RaceGet(q, carried, now, fault) ==
    /\ race[q].pc = "start"
    /\ \E fresh \in GenIDs :
        LET r == StoreGet(db, carried, fresh, now, fault)
        IN  /\ (~r.err /\ r.session[1].id # carried) => fresh \notin DOMAIN db
            /\ race' = [race EXCEPT ![q] = [pc |-> IF r.err THEN "done" ELSE "got",
                                            session |-> r.session,
                                            flashes |-> <<>>]]
    /\ UNCHANGED db

\* The handler of request q calls page.FlashAll on the session it got; the
\* session is its own, the upsert of Save is the one step other requests see.
RaceFlashAll(q, fault) ==
    /\ race[q].pc = "got"
    /\ LET r == PageFlashAll(db, race[q].session[1], fault)
       IN  /\ db' = r.table
           /\ race' = [race EXCEPT ![q] = [pc |-> "done",
                                           session |-> <<r.session>>,
                                           flashes |-> r.flashes]]

InitRace ==
    /\ NoRequests
    /\ NoTranslations
    /\ \E s \in RaceStored : db = Upsert(<<>>, s.id, Row(s))
    /\ sess = [q \in Reqs |-> <<>>]
    /\ held = [q \in Reqs |-> <<>>]
    /\ drained = [q \in Reqs |-> <<>>]
    /\ slast = NoStoreCall
    /\ calls = 0
    /\ NoLibCalls

NextRace ==
    /\ \/ \E q \in RaceReqs, carried \in DOMAIN db, now \in Dates,
            fault \in Faults \ {"rand"} : RaceGet(q, carried, now, fault)
       \/ \E q \in RaceReqs, fault \in Faults \ {"rand"} : RaceFlashAll(q, fault)
    /\ UNCHANGED <<langVars, concVars, sess, held, drained, slast, calls, permVars,
                 paramVars, flashVars, webVars, textVars, multiVars>>

SpecRace == InitRace /\ [][NextRace]_vars

----------------------------------------------------------------------------
(* Properties of the lookup *)

HasKey(l, k) == k \in DOMAIN translations[l]

\* The receiver followed by its fallbacks, as stored now.
Chain(l) == <<l>> \o fallbacks[l]

\* Position in the chain of the first language that has the key, 0 if none has.
FirstWith(l, k) ==
    LET c == Chain(l)
        hits == {i \in 1..Len(c) : HasKey(c[i], k)}
    IN  IF hits = {} THEN 0 ELSE CHOOSE i \in hits : \A j \in hits : i <= j

\* What executing language x's translation of k on the data of args gives.
Rendering(x, k, args) == Execute(translations[x][k].Other, TemplateData(args))

\* C1: T looks the key up in the receiver first and then in each entry of
\* Fallbacks in the order stored; what it returns is the rendering of the first
\* language of that sequence that has the key, whatever later languages hold
\* (and it is the execution of that translation that can fail).
C1_FirstMatchWins ==
    (last.op = "T" /\ FirstWith(last.lang, last.key) > 0) =>
        LET x == Chain(last.lang)[FirstWith(last.lang, last.key)]
            e == Rendering(x, last.key, last.args)
        IN  IF e.err
            THEN last.outcome = "fatal"
            ELSE last.outcome = "return" /\ last.result = e.out

\* A lookup that was answered by the first fallback while the second fallback
\* holds a different translation of the key.
C1_Witness ==
    /\ last.op = "T" /\ last.outcome = "return"
    /\ ~HasKey(last.lang, last.key)
    /\ Len(fallbacks[last.lang]) = 2
    /\ HasKey(fallbacks[last.lang][1], last.key)
    /\ HasKey(fallbacks[last.lang][2], last.key)
    /\ ~Rendering(fallbacks[last.lang][2], last.key, last.args).err
    /\ Rendering(fallbacks[last.lang][2], last.key, last.args).out # last.result
    /\ Rendering(fallbacks[last.lang][1], last.key, last.args).out = last.result

\* C2: when neither the receiver nor any language of its fallback list has the
\* key, T returns the key itself, for every data argument.
C2_MissingKeyReturnsKey ==
    (last.op = "T" /\ FirstWith(last.lang, last.key) = 0) =>
        (last.outcome = "return" /\ last.result = <<last.key>>)

\* A lookup with data of a key that no language of a two-entry chain has, while
\* the languages do hold another key.
C2_Witness ==
    /\ last.op = "T" /\ last.args # <<>>
    /\ FirstWith(last.lang, last.key) = 0
    /\ Len(fallbacks[last.lang]) = 2
    /\ \A i \in 1..3 : DOMAIN translations[Chain(last.lang)[i]] # {}
    /\ last.result = <<last.key>>

\* C3: when L lacks K and L's fallbacks are [F1, F2] with F1 lacking K and F2
\* having it, L.T(K, data) ends exactly as F2.T(K, data) does: with the same
\* string, or both in the failure of executing F2's template.
C3_FallbackEqualsDirect ==
    (/\ last.op = "T"
     /\ ~HasKey(last.lang, last.key)
     /\ Len(fallbacks[last.lang]) = 2
     /\ ~HasKey(fallbacks[last.lang][1], last.key)
     /\ HasKey(fallbacks[last.lang][2], last.key)) =>
        LET direct == T(translations, fallbacks, fallbacks[last.lang][2],
                        last.key, last.args)
        IN  last.outcome = direct.outcome /\ last.result = direct.result

\* The scenario of the test: de lacks the key, en lacks it, es has it, and the
\* lookup on de with data returned es's rendering.
C3_Witness ==
    /\ last.op = "T" /\ last.outcome = "return" /\ last.args = <<Christian>>
    /\ last.lang = "de" /\ fallbacks["de"] = <<"en", "es">>
    /\ ~HasKey("de", last.key) /\ ~HasKey("en", last.key) /\ HasKey("es", last.key)
    /\ HasKey("en", "greeting")
    /\ last.result = <<"Hallo ", "Christian">>

----------------------------------------------------------------------------
(* Properties of Add and of the calls in sequence *)

\* C4: keys are unique within a language. An Add that returns leaves its own
\* translation under the key, so that every lookup of the key on the language
\* gives the new text; it adds one key when the key is new and none when the
\* key exists, so the second of two successive Adds of a key adds none.
C4_AddReplaces ==
    [][(last'.op = "Add" /\ last'.outcome = "return") =>
        LET l == last'.lang
            k == last'.key
            grown == IF k \in DOMAIN translations[l] THEN 0 ELSE 1
        IN  /\ translations'[l][k].Other.tree = last'.text
            /\ Cardinality(DOMAIN translations'[l])
                   = Cardinality(DOMAIN translations[l]) + grown
            /\ prev' # <<>> => DOMAIN translations'[l] = DOMAIN translations[l]
            /\ \A args \in ArgLists :
                   LET r == T(translations', fallbacks', l, k, args)
                       e == Execute([name |-> k, tree |-> last'.text],
                                    TemplateData(args))
                   IN  IF e.err THEN r.outcome = "fatal"
                       ELSE r.outcome = "return" /\ r.result = e.out]_vars

\* Two successive Adds of one key with different texts: the language holds one
\* key, with the second text.
C4_Witness ==
    /\ last.op = "Add" /\ last.outcome = "return"
    /\ prev # <<>> /\ prev[1].outcome = "return" /\ prev[1].text # last.text
    /\ DOMAIN translations[last.lang] = {last.key}
    /\ translations[last.lang][last.key].Other.tree = last.text

\* Whether a list of AddMulti arguments holds a text that is no template.
HasBadText(args) == \E i \in 1..Len(args) : i % 2 = 0 /\ ~Parse("", args[i]).ok

\* C5 (as claimed): adding a translation whose text is no template reports
\* the failure as a returned error; it does not panic and the process goes on.
C5_ParseFailureIsReturnedError ==
    ((last.op = "Add" /\ ~Parse(last.key, last.text).ok)
       \/ (last.op = "AddMulti" /\ Len(last.args) % 2 = 0 /\ HasBadText(last.args)))
      => (last.outcome = "error" /\ status = "running")

\* C6 (as claimed): when executing the found translation fails, T returns the
\* key, the error is recorded and the process keeps running.
C6_ExecuteFailureDegrades ==
    (/\ last.op = "T"
     /\ FirstWith(last.lang, last.key) > 0
     /\ Rendering(Chain(last.lang)[FirstWith(last.lang, last.key)],
                  last.key, last.args).err)
      => (last.outcome = "return" /\ last.result = <<last.key>>
            /\ errlog > 0 /\ status = "running")

\* C7: a T call changes neither the translations nor the fallback list of any
\* language, and a T call that repeats the call before it (same language, key
\* and data, nothing in between) returns the same string.
C7_LookupIdempotent ==
    [][/\ last'.op = "T" => UNCHANGED <<translations, fallbacks>>
       /\ (last'.op = "T" /\ prev' # <<>>) =>
              (last'.outcome = prev'[1].outcome /\ last'.result = prev'[1].result)]_vars

\* The same lookup made twice, answered both times from a fallback.
C7_Witness ==
    /\ last.op = "T" /\ prev # <<>>
    /\ last.outcome = "return" /\ last.args = <<Christian>>
    /\ FirstWith(last.lang, last.key) = 2
    /\ last.result = <<"Hallo ", "Christian">>
    /\ prev[1].result = last.result

----------------------------------------------------------------------------
(* Concurrent lookups *)

\* C8: with all Adds and Removes done before the first lookup, T calls that
\* run concurrently on a language each end as the same call run alone would,
\* and no step of a lookup writes the translations or the fallback lists.
C8_ConcurrentLookupsSafe ==
    /\ [](\A p \in Readers : readers[p].pc = "done" =>
            LET alone == T(translations, fallbacks, served,
                           readers[p].key, readers[p].args)
            IN  readers[p].outcome = alone.outcome /\ readers[p].result = alone.result)
    /\ [][UNCHANGED <<translations, fallbacks>>]_vars

\* Two lookups with different data were in progress at once and both returned
\* a rendering from a fallback language.
C8_Witness ==
    /\ overlap
    /\ \A p \in Readers : readers[p].pc = "done" /\ readers[p].outcome = "return"
    /\ readers["r1"].args # readers["r2"].args
    /\ readers["r1"].result # readers["r2"].result
    /\ \A p \in Readers : readers[p].i = 2 /\ readers[p].result # <<readers[p].key>>

----------------------------------------------------------------------------
(* Properties of sessions and the session store *)

\* The session the most recent call was made on.
Current == sess[slast.q][1]

\* C9: draining a session's flashes (FlashAll) returns every flash that is
\* pending at that moment, in the order they were added, and leaves the session
\* with no pending flash; so the flashes put into a session are those that its
\* drains have returned, once each and in order, followed by the pending ones.
C9_FlashAllDrainsOnce ==
    /\ (slast.op = "FlashAll" /\ sess[slast.q] # <<>>) =>
           /\ slast.result = slast.pending
           /\ Current.flashes = <<>>
    /\ \A q \in Reqs :
           sess[q] # <<>> => held[q] = drained[q] \o sess[q][1].flashes

\* The Get just made was for the ID of the session that the call before it,
\* a Save, has saved without error.
GetAfterSave ==
    /\ slast.op = "Get"
    /\ slast.saved # <<>>
    /\ slast.carried = slast.saved[1].id

\* The session that Get returned is the one saved.
RoundTrip ==
    /\ slast.ok
    /\ sess[slast.q] # <<>>
    /\ Current.id = slast.saved[1].id
    /\ Current.dateCreated = slast.saved[1].dateCreated
    /\ Current.flashes = slast.saved[1].flashes
    /\ Current.values = slast.saved[1].values
    /\ Current.isStored

C11_DeletedSessionIsGone ==
    /\ (slast.op = "Delete" /\ slast.ok) => slast.deleted[1].id \notin DOMAIN db
    /\ (slast.op = "Get" /\ slast.ok /\ slast.deleted # <<>>
           /\ slast.carried = slast.deleted[1].id) =>
           /\ sess[slast.q] # <<>>
           /\ Current.id # slast.deleted[1].id
           /\ Current.id \in GenIDs
           /\ ~Current.isStored
           /\ Current.id \notin DOMAIN db
           /\ Current.flashes = <<>> /\ Current.values = NewValues

\* A session with a well-formed ID that had a row in the store has been
\* deleted, and the request that still carries its ID got a new session.
C11_Witness ==
    /\ slast.op = "Get" /\ slast.ok
    /\ slast.deleted # <<>>
    /\ slast.deleted[1].stored
    /\ slast.carried = slast.deleted[1].id
    /\ isID(slast.carried)
    /\ Current.id \in GenIDs

\* C12: every save is a single upsert keyed by session ID: the table holds
\* one row per ID (id is its primary key), and after a successful Save the row
\* of the session's ID carries the data of that Save, also when the session
\* had a row before.
C12_SaveIsUpsert ==
    (slast.op = "Save" /\ slast.ok) =>
        /\ slast.row[1].id \in DOMAIN db
        /\ db[slast.row[1].id] = slast.row[1].row

----------------------------------------------------------------------------
(* Properties of the permissions *)

\* The permission is granted: it has an entry in the map, and the entry is true.
Granted(permission) ==
    permission \in DOMAIN permissions /\ permissions[permission]

\* C13: Has(p) returns true only for a permission that is currently granted:
\* true after Add(p), false after Remove(p), and false for a permission whose
\* entry in the map has been set to false.
C13_HasOnlyGranted ==
    hlast.op = "Has" => (hlast.result <=> Granted(hlast.permissions[1]))

----------------------------------------------------------------------------
(* Properties of params.Parser.Parse *)

PointerToStruct == parser.dest.Kind = "ptr" /\ parser.dest.Elem = "struct"

\* The types that have a case in the type switch of Parse, of those modelled.
SupportedTypes ==
    {"bool", "int8", "string", "uint8", "[]bool", "[]int8", "[]string", "[]uint8"}

\* The values the request supplies for field i of the destination.
Supplied(i) == param(parser.p, ParamName(parser.dest.Fields[i]))

\* C14: Parse returns an error when the destination is not a pointer to a
\* struct, and when the struct it points to has a field of an unsupported type.
C14_UnsupportedDestinationIsError ==
    (/\ plast.op = "Parse"
     /\ \/ ~PointerToStruct
        \/ \E i \in DOMAIN parser.dest.Fields :
               parser.dest.Fields[i].Type \notin SupportedTypes) => plast.err # ""

\* C15: after a Parse without error, a field is bound from the parameter named
\* by its param tag, and a field without tag from the parameter whose name is
\* the lowercased field name: it holds what the type's conversion makes of the
\* values of that parameter.
C15_BoundFromLowercasedNameOrTag ==
    (plast.op = "Parse" /\ plast.err = "" /\ PointerToStruct) =>
        \A i \in DOMAIN parser.dest.Fields :
            LET field  == parser.dest.Fields[i]
                values == param(parser.p, ParamNameLowercased(field))
            IN  (values # <<>> /\ field.Type \in SupportedTypes) =>
                    \E conversion \in Conversions :
                        /\ Convert(field.Type, values, conversion).err = ""
                        /\ plast.dest[i] = Convert(field.Type, values, conversion).x

TrueWords == {<<"1">>, <<"t", "r", "u", "e">>, <<"y", "e", "s">>}

FalseWords == {<<"0">>, <<"f", "a", "l", "s", "e">>, <<"n", "o">>}

\* The truth value the words of the claim give a supplied value, if any.
BoolAsClaimed(value, b) ==
    /\ ToLower(value) \in TrueWords => b = TRUE
    /\ ToLower(value) \in FalseWords => b = FALSE

\* C16: a bool field holds true for a supplied "1", "true" or "yes" in any
\* case and false for "0", "false" or "no", a []bool field element by element;
\* a Parse that binds boolean fields only returns no error.
C16_BooleanWords ==
    (plast.op = "Parse" /\ PointerToStruct) =>
        /\ plast.err = "" =>
               \A i \in DOMAIN parser.dest.Fields :
                   /\ (parser.dest.Fields[i].Type = "bool" /\ Supplied(i) # <<>>) =>
                          BoolAsClaimed(Supplied(i)[1], plast.dest[i])
                   /\ (parser.dest.Fields[i].Type = "[]bool" /\ Supplied(i) # <<>>) =>
                          /\ Len(plast.dest[i]) = Len(Supplied(i))
                          /\ \A k \in DOMAIN Supplied(i) :
                                 BoolAsClaimed(Supplied(i)[k], plast.dest[i][k])
        /\ (\A i \in DOMAIN parser.dest.Fields :
                Supplied(i) # <<>> => parser.dest.Fields[i].Type \in {"bool", "[]bool"})
               => plast.err = ""

\* A bool field was bound from "TRUE", or a []bool field from "Yes" and "no".
C16_Witness ==
    /\ plast.op = "Parse" /\ plast.err = "" /\ PointerToStruct
    /\ \E i \in DOMAIN parser.dest.Fields :
           \/ /\ parser.dest.Fields[i].Type = "bool"
              /\ Supplied(i) = << <<"T", "R", "U", "E">> >>
              /\ plast.dest[i] = TRUE
           \/ /\ parser.dest.Fields[i].Type = "[]bool"
              /\ Supplied(i) = << <<"Y", "e", "s">>, <<"n", "o">> >>
              /\ plast.dest[i] = <<TRUE, FALSE>>

\* The range of an integer type.
MinOf(type) == IF type \in {"int8", "[]int8"} THEN 0 - 128 ELSE 0

MaxOf(type) == IF type \in {"int8", "[]int8"} THEN 127 ELSE 255

\* An integer literal within lo..hi. The empty value stands for 0 (function z).
IntegerWithin(value, lo, hi) ==
    LET signed == value # <<>> /\ value[1] \in {"+", "-"}
        digits == IF signed THEN Tail(value) ELSE value
        n      == IF value # <<>> /\ value[1] = "-" THEN 0 - Number(digits)
                  ELSE Number(digits)
    IN  \/ value = <<>>
        \/ /\ digits # <<>> /\ IsDigits(digits)
           /\ lo <= n /\ n <= hi

\* C17: Parse returns an error when the value bound to an int8 or uint8 field,
\* or one of the values bound to a []int8 or []uint8 field, is not an integer
\* literal within the range of the type.
C17_NumbersPerWidth ==
    (plast.op = "Parse" /\ PointerToStruct) =>
        \A i \in DOMAIN parser.dest.Fields :
            LET type == parser.dest.Fields[i].Type
                used == IF type \in {"int8", "uint8"} THEN {1} ELSE DOMAIN Supplied(i)
            IN  (/\ type \in {"int8", "uint8", "[]int8", "[]uint8"}
                 /\ Supplied(i) # <<>>
                 /\ \E k \in used : ~IntegerWithin(Supplied(i)[k], MinOf(type), MaxOf(type)))
                    => plast.err # ""

----------------------------------------------------------------------------
(* Properties of removing flashes *)

Elements(list) == {list[i] : i \in DOMAIN list}

RECURSIVE Others(_, _)
Others(ff, removed) ==
    IF ff = <<>> THEN <<>>
    ELSE IF Head(ff) \in removed THEN Others(Tail(ff), removed)
    ELSE <<Head(ff)>> \o Others(Tail(ff), removed)

\* C18: after flashes are removed from a list, none of them is in the list and
\* the list holds the other flashes it held before, in their order; the
\* call returns (it does not panic).
C18_RemoveLeavesTheOthers ==
    rlast.op = "Remove" =>
        /\ ~rlast.panicked
        /\ Elements(flist) \cap Elements(rlast.flashes) = {}
        /\ flist = Others(rlast.before, Elements(rlast.flashes))

----------------------------------------------------------------------------
(* Properties of the hooks *)

\* The hooks registered before, and after, the AddRoute call for the path.
AddedAt(path) == CHOOSE i \in DOMAIN history : history[i].path = path

HooksBefore(path) ==
    {history[i].hook : i \in {j \in DOMAIN history :
                                 history[j].op = "AddHook" /\ j < AddedAt(path)}}

HooksAfter(path) ==
    {history[i].hook : i \in {j \in DOMAIN history :
                                 history[j].op = "AddHook" /\ j > AddedAt(path)}}

Ran(name) == \E i \in DOMAIN wlast.trace : wlast.trace[i] = name

RanBeforeHandle(name) ==
    \E i \in DOMAIN wlast.trace :
        /\ wlast.trace[i] = name
        /\ \A j \in DOMAIN wlast.trace : wlast.trace[j] = "handle" => i < j

\* C19 as stated: on every request to a route, every hook registered before
\* the AddRoute call runs, and runs before the route's handle function; no
\* hook registered after the call runs.
C19_EveryHookRunsOnEachRequest ==
    wlast.op = "ServeHTTP" =>
        /\ \A hook \in HooksBefore(wlast.request[1].path) : RanBeforeHandle(hook)
        /\ \A hook \in HooksAfter(wlast.request[1].path) : ~Ran(hook)

\* C19, amended: on every request to a route no hook registered after the
\* AddRoute call runs, and when the route's handle function runs, every hook
\* registered before the call has run before it; when it does not run, a
\* LanguageHook registered before the call has ended the request.
C19_HooksRunBeforeTheHandleRuns ==
    wlast.op = "ServeHTTP" =>
        /\ \A hook \in HooksAfter(wlast.request[1].path) : ~Ran(hook)
        /\ Ran("handle") =>
               \A hook \in HooksBefore(wlast.request[1].path) : RanBeforeHandle(hook)
        /\ ~Ran("handle") =>
               /\ "LanguageHook" \in HooksBefore(wlast.request[1].path)
               /\ Ran("LanguageHook")
               /\ ~wlast.request[1].languageSupported

\* The handle function of a route ran on a request, after a hook registered
\* before the route was added; another hook was registered after.
C19_Witness ==
    /\ wlast.op = "ServeHTTP"
    /\ Ran("handle")
    /\ HooksBefore(wlast.request[1].path) # {}
    /\ HooksAfter(wlast.request[1].path) # {}

----------------------------------------------------------------------------
(* Properties of Truncate *)

Prefixes(s) == {SubSeq(s, 1, k) : k \in 0..Len(s)}

\* C20 as stated: a text of at most maxLength runes is returned unchanged;
\* otherwise the result has at most maxLength runes and is a prefix of text
\* followed by suffix, or empty when suffix has more than maxLength runes.
C20_TruncatedWithinMaxLength ==
    tlast.op = "Truncate" =>
        IF Len(truncation.text) <= truncation.maxLength
        THEN tlast.result = truncation.text
        ELSE /\ Len(tlast.result) <= truncation.maxLength
             /\ IF Len(truncation.suffix) > truncation.maxLength
                THEN tlast.result = <<>>
                ELSE \E prefix \in Prefixes(truncation.text) :
                         tlast.result = prefix \o truncation.suffix

\* C20, amended: a text of at most maxLength runes is returned unchanged;
\* otherwise the result is empty when suffix has more than maxLength runes
\* (always so for a negative maxLength), and else a prefix of the runes of
\* text followed by the runes of suffix, of at most maxLength runes.
C20_TruncatedRunesWithinMaxLength ==
    tlast.op = "Truncate" =>
        IF Len(truncation.text) <= truncation.maxLength
        THEN tlast.result = truncation.text
        ELSE IF Len(truncation.suffix) > truncation.maxLength
        THEN tlast.result = <<>>
        ELSE /\ Len(tlast.result) <= truncation.maxLength
             /\ \E prefix \in Prefixes(Runes(truncation.text)) :
                    tlast.result = prefix \o Runes(truncation.suffix)

\* A text was cut at the end of a word and the suffix appended.
C20_Witness ==
    /\ tlast.op = "Truncate"
    /\ ~truncation.exact
    /\ Len(truncation.text) > truncation.maxLength
    /\ truncation.suffix # <<>>
    /\ Len(tlast.result) > Len(truncation.suffix)

----------------------------------------------------------------------------
(* Properties of sessions held together *)

\* The sessions a call has acted on: all of the list for SaveMulti, else one.
ActedOn == IF mlast.op = "SaveMulti" THEN 1..Len(batch) ELSE {mlast.i}

\* C21: IsStored follows the store, call by call: false for a session
\* just created with NewSession, true for a session that Get has loaded from
\* its row, true for every session a successful Save or SaveMulti has written,
\* false after a successful Delete, and as before when Save, SaveMulti or
\* Delete returns an error.
C21_IsStoredFollowsTheStore ==
    /\ mlast.op = "NewSession" => ~batch[mlast.i].isStored
    /\ (mlast.op = "Get" /\ mlast.ok) =>
           batch[mlast.i].isStored = (batch[mlast.i].id \in DOMAIN db)
    /\ (mlast.op \in {"Save", "SaveMulti"} /\ mlast.ok) =>
           \A i \in ActedOn : batch[i].isStored /\ batch[i].id \in DOMAIN db
    /\ (mlast.op = "Delete" /\ mlast.ok) =>
           ~batch[mlast.i].isStored /\ batch[mlast.i].id \notin DOMAIN db
    /\ (mlast.op \in {"Save", "SaveMulti", "Delete"} /\ ~mlast.ok) =>
           \A i \in 1..Len(batch) : batch[i].isStored = mlast.before[i].isStored

\* The last session of the list that has the ID of the i-th.
LastWithID(list, i) ==
    CHOOSE j \in i..Len(list) :
        /\ list[j].id = list[i].id
        /\ \A k \in (j + 1)..Len(list) : list[k].id # list[i].id

\* C23: SaveMulti is all-or-nothing. When it returns an error the table
\* is as it was before the call; when it returns nil every session of the list
\* has its row, with the data of the last session of the list under that ID,
\* and the rows of other IDs are as they were.
C23_SaveMultiAllOrNothing ==
    mlast.op = "SaveMulti" =>
        IF mlast.ok
        THEN /\ \A i \in 1..Len(batch) :
                    /\ batch[i].id \in DOMAIN db
                    /\ db[batch[i].id] = Row(batch[LastWithID(batch, i)])
             /\ \A id \in DOMAIN mlast.table :
                    (\A i \in 1..Len(batch) : batch[i].id # id) =>
                        id \in DOMAIN db /\ db[id] = mlast.table[id]
             /\ DOMAIN db = DOMAIN mlast.table \cup {batch[i].id : i \in 1..Len(batch)}
        ELSE db = mlast.table

\* A SaveMulti of two sessions with different IDs has failed for the second,
\* after the row of the first was written in the transaction, and the row the
\* first would get differs from what the table holds.
C23_Witness ==
    /\ mlast.op = "SaveMulti" /\ ~mlast.ok
    /\ Len(batch) = 2
    /\ batch[1].id # batch[2].id
    /\ (batch[1].id \notin DOMAIN db \/ db[batch[1].id] # Row(batch[1]))
    /\ batch[2].id \in DOMAIN db

----------------------------------------------------------------------------
(* Properties of the IDs that Get accepts *)

\* A non-empty string of characters of the pattern ^[0-9a-zA-Z=/+]+$.
MatchesIDPattern(id) == id # <<>> /\ \A i \in DOMAIN id : id[i] \in PatternChars

\* C22: a Get that returns a session adopts the ID the request carries
\* only when that ID is well-formed and has a row in the store. For a request
\* with no ID, a malformed ID or an ID without a row, the session has a newly
\* generated ID, other than the carried one, is not stored and has no row.
C22_GetAdoptsOnlyStoredIDs ==
    (slast.op = "Get" /\ slast.ok) =>
        IF MatchesIDPattern(slast.carried) /\ slast.carried \in DOMAIN db
        THEN Current.id = slast.carried /\ Current.isStored
        ELSE /\ Current.id \in GenIDs
             /\ Current.id # slast.carried
             /\ Current.id \notin DOMAIN db
             /\ ~Current.isStored
             /\ Current.flashes = <<>>

\* A request has carried a malformed ID that has a row in the store (the
\* application saved a session under it), and Get returned a session.
C22_Witness ==
    /\ slast.op = "Get" /\ slast.ok
    /\ slast.carried # <<>>
    /\ ~MatchesIDPattern(slast.carried)
    /\ slast.carried \in DOMAIN db
    /\ Current.id \in GenIDs

----------------------------------------------------------------------------
(* Properties of the save in FlashAll *)

\* Request q makes a FlashAll call on a page that has a session.
FlashAllStep(q) == slast'.op = "FlashAll" /\ slast'.q = q /\ sess[q] # <<>>

\* What a request that loads the session of this ID next finds as flashes.
LoadedFlashes(table, id) == FlashesFromJSON(table[id].flashes)

----------------------------------------------------------------------------
(* Properties of the session hook *)

\* The route of the request served was added with SessionHook registered.
WithSessionHook == "SessionHook" \in HooksBefore(wlast.request[1].path)

\* The session is in the context of the request when SessionHook has run and
\* the store has returned a session.
SessionInContext == Ran("SessionHook") /\ wlast.request[1].sessionFound

\* C25: on a request to a route with session handling for which the
\* store returns an error, the route's handle function does not run; whenever
\* it runs, the session is in the context of the request.
C25_StoreFailureStopsTheRequest ==
    (wlast.op = "ServeHTTP" /\ WithSessionHook) =>
        /\ (Ran("SessionHook") /\ ~wlast.request[1].sessionFound) => ~Ran("handle")
        /\ Ran("handle") => SessionInContext

\* How often a hook, or the handle function, ran on the request served.
TimesRan(name) == Cardinality({i \in DOMAIN wlast.trace : wlast.trace[i] = name})

\* C26: on a request to a route, whatever the position of its method in
\* the methods of the AddRoute call, every hook registered before the call
\* runs at most once, and exactly once when the route's handle function runs.
C26_EachHookRunsOnce ==
    wlast.op = "ServeHTTP" =>
        \A hook \in HooksBefore(wlast.request[1].path) :
            /\ TimesRan(hook) <= 1
            /\ Ran("handle") => TimesRan(hook) = 1

----------------------------------------------------------------------------
(* Properties of requests served at the same time *)

\* C27: of two requests that carry the same session ID and are served
\* at the same time, each calling Get and then FlashAll, at most one gets a
\* given stored flash from FlashAll: no flash is returned to both.
C27_FlashReturnedToOneRequest ==
    Elements(race["q1"].flashes) \cap Elements(race["q2"].flashes) = {}

----------------------------------------------------------------------------
(* Properties of the languages a lookup consults *)

\* The tables with the translations of the languages outside S removed.
Without(tr, S) ==
    [x \in Langs |-> IF x \in S THEN tr[x] ELSE NewLanguage.translations]

\* The fallback lists with every list but that of l emptied.
OnlyFallbacksOf(fb, l) ==
    [x \in Langs |-> IF x = l THEN fb[x] ELSE NewLanguage.Fallbacks]

\* C28: a lookup consults the receiver and the languages of its
\* Fallbacks, one after another and no other language: at most
\* 1 + len(Fallbacks) languages, and its outcome is the same with every other
\* language emptied and every other fallback list removed. It ends also when
\* the receiver is in its own Fallbacks or two languages name each other, with
\* the key itself when no consulted language has the key.
C28_LookupStaysInTheChain ==
    last.op = "T" =>
        LET l == last.lang
            direct == {l} \cup Elements(fallbacks[l])
            visited == Visited(translations, fallbacks, l, last.key)
            alone == T(Without(translations, direct), OnlyFallbacksOf(fallbacks, l),
                       l, last.key, last.args)
        IN  /\ Len(visited) <= 1 + Len(fallbacks[l])
            /\ \A i \in DOMAIN visited : visited[i] \in direct
            /\ last.outcome = alone.outcome
            /\ last.result = alone.result
            /\ last.outcome \in {"return", "fatal"}
            /\ (\A x \in direct : ~HasKey(x, last.key)) =>
                   last.outcome = "return" /\ last.result = <<last.key>>

\* A lookup on a language that is a fallback of its own fallback, for a key
\* that only a further fallback of that fallback has: the key comes back.
C28_Witness ==
    /\ last.op = "T" /\ last.outcome = "return"
    /\ last.result = <<last.key>>
    /\ \E x \in Elements(fallbacks[last.lang]) :
           /\ x # last.lang
           /\ last.lang \in Elements(fallbacks[x])
           /\ \E y \in Elements(fallbacks[x]) :
                  /\ y \notin {last.lang} \cup Elements(fallbacks[last.lang])
                  /\ HasKey(y, last.key)

----------------------------------------------------------------------------
(* Properties of Session.RemoveFlash *)

\* C29: Session.RemoveFlash returns, whatever the flash list and the
\* flash given: it does not panic, not when the flash is in the list before
\* its last element and not when the list holds the flash more than once.
C29_RemoveFlashReturns ==
    (rlast.op = "Remove" /\ fkind # "flashes") => ~rlast.panicked

----------------------------------------------------------------------------
(* Properties of the destination after Parse *)

\* The error with which the loop over the fields ended, "" when it ran through.
FieldError == IF plast.op = "Parse" THEN plast.err ELSE plast.fieldErr

\* The destination as it was handed to Parse: every field has its zero value.
Untouched ==
    plast.dest = [i \in DOMAIN parser.dest.Fields |-> Zero(parser.dest.Fields[i].Type)]

\* C30: when Parse returns an error because a parameter cannot be
\* converted or a field has an unsupported type, no field of the destination
\* has been modified and AfterParse has not been called; when every field was
\* bound, AfterParse has been called exactly once.
C30_ParseIsAllOrNothing ==
    (plast.op \in {"Parse", "ParseWithAfterParse"} /\ PointerToStruct) =>
        /\ FieldError # "" => Untouched
        /\ plast.op = "ParseWithAfterParse" =>
               plast.after = IF FieldError # "" THEN 0 ELSE 1

====
